---- MODULE Spec2Model ----
(***************************************************************************)
(* Model of src/plots.py.  Each group of functions has a record-valued     *)
(* variable of its own and a specification of its own:                     *)
(*   fci   format_ci and credible_interval                                 *)
(*   val   validation_all / validation_example                             *)
(*   pcs   pca                                                             *)
(*   bulk  _region_bulk                                                    *)
(*   post  histogram smoothing of _posterior and posterior_p               *)
(*   ovl   experimental overlays of the observable and flow plots          *)
(*   ds    arrays and aliasing of the data sets                            *)
(*   fsys  format_system                                                   *)
(*   deco  the plot decorator and set_tight                                *)
(*   eb    experimental error bars of _observables                         *)
(*   scr   the script entry point                                          *)
(*   clr   obs_color_hsluv                                                 *)
(*   sel   parameter selection of _posterior                               *)
(*                                                                         *)
(* Numbers are exact rationals <<n, d>> in lowest terms with d > 0,        *)
(* extended with the IEEE special values the numpy code can produce:       *)
(*   <<1, 0>> = +inf, <<-1, 0>> = -inf, <<0, 0>> = nan.                    *)
(***************************************************************************)
EXTENDS Integers, Sequences, FiniteSets, TLC

VARIABLES fci, val, pcs, bulk, post, ovl, ds, fsys, deco, eb, scr, clr, sel

vars == <<fci, val, pcs, bulk, post, ovl, ds, fsys, deco, eb, scr, clr, sel>>

----------------------------------------------------------------------------
(* Bounds of the model *)

\* longest sample array handed to format_ci
MaxSamples == 3

\* validation design points and centrality bins per observable
NPoints == 2

NBins == 2

\* most sample rows chain.load returns to _region_bulk
MaxRows == 3

\* design points in the point cloud pca decomposes
NCloud == 4

\* experimental points of the data set _observables overlays
NErrPoints == 2

\* most plot names on the command line
MaxArgs == 2

----------------------------------------------------------------------------
(* Extended rational arithmetic (numpy float64 semantics, exact on finite   *)
(* values)                                                                  *)

Abs(i) == IF i < 0 THEN -i ELSE i

Sign(i) == IF i < 0 THEN -1 ELSE IF i > 0 THEN 1 ELSE 0

\* An operand is an expression evaluated once, as a float operand is: the
\* operators bind each operand to its value (x \in {a}) before using it.
RECURSIVE GCD(_, _)
GCD(a, b) ==
    CHOOSE g \in {IF y = 0 THEN x ELSE GCD(y, x % y) : x \in {a}, y \in {b}} : TRUE

Norm(n, d) ==
    CHOOSE r \in {IF y = 0 THEN <<Sign(x), 0>>
                  ELSE LET s == IF y < 0 THEN -1 ELSE 1
                       IN  <<(s * x) \div g, (s * y) \div g>> :
                  x \in {n}, y \in {d}, g \in {GCD(Abs(n), Abs(d))}} : TRUE

R(n, d) == Norm(n, d)
RInt(i) == <<i, 1>>
NaN == <<0, 0>>
PosInf == <<1, 0>>
NegInf == <<-1, 0>>

IsNaN(a) == a[2] = 0 /\ a[1] = 0
IsInf(a) == a[2] = 0 /\ a[1] # 0
IsFinite(a) == a[2] > 0

RNeg(a) == <<-a[1], a[2]>>

RAdd(a, b) ==
    CHOOSE r \in
        {IF IsNaN(x) \/ IsNaN(y) THEN NaN
         ELSE IF IsInf(x) /\ IsInf(y) THEN (IF x = y THEN x ELSE NaN)
         ELSE IF IsInf(x) THEN x
         ELSE IF IsInf(y) THEN y
         ELSE LET g == GCD(x[2], y[2])
              IN  Norm(x[1] * (y[2] \div g) + y[1] * (x[2] \div g), (x[2] \div g) * y[2]) :
         x \in {a}, y \in {b}} : TRUE

RSub(a, b) == RAdd(a, RNeg(b))

\* 0*inf = nan, x*inf = +-inf, nan*x = nan all fall out of the cross product
RMul(a, b) ==
    CHOOSE r \in
        {IF IsFinite(x) /\ IsFinite(y) /\ x[1] # 0 /\ y[1] # 0
         THEN LET g == GCD(Abs(x[1]), y[2])
                  h == GCD(Abs(y[1]), x[2])
              IN  <<(x[1] \div g) * (y[1] \div h), (x[2] \div h) * (y[2] \div g)>>
         ELSE Norm(x[1] * y[1], x[2] * y[2]) :
         x \in {a}, y \in {b}} : TRUE

\* x/0 = +-inf, 0/0 = nan, x/inf = 0, inf/inf = nan (numpy warns, never raises)
RDiv(a, b) == CHOOSE r \in {RMul(a, Norm(y[2], y[1])) : y \in {b}} : TRUE

RLt(a, b) ==
    \E x \in {a}, y \in {b} :
        IF IsNaN(x) \/ IsNaN(y) THEN FALSE
        ELSE IF IsInf(x) \/ IsInf(y)
             THEN (IF IsInf(x) THEN x[1] ELSE 0) < (IF IsInf(y) THEN y[1] ELSE 0)
                  \/ (IsInf(x) /\ x[1] < 0 /\ IsFinite(y))
                  \/ (IsInf(y) /\ y[1] > 0 /\ IsFinite(x))
        ELSE x[1] * y[2] < y[1] * x[2]

RLe(a, b) == a = b \/ RLt(a, b)

RAbs(a) == <<Abs(a[1]), a[2]>>

\* floor of a finite rational
RFloor(a) == a[1] \div a[2]

----------------------------------------------------------------------------
(* Sorting and order statistics (numpy sort / partition)                    *)

RECURSIVE Insert(_, _)
Insert(x, s) ==
    CHOOSE r \in {IF t = <<>> THEN <<v>>
                  ELSE IF RLe(v, Head(t)) THEN <<v>> \o t
                  ELSE <<Head(t)>> \o Insert(v, Tail(t)) : v \in {x}, t \in {s}} : TRUE

RECURSIVE Sort(_)
Sort(s) == IF s = <<>> THEN <<>> ELSE Insert(Head(s), Sort(Tail(s)))

\* np.median: the middle order statistic, or the mean of the two middle ones
Median(samples) ==
    LET s == Sort(samples)
        n == Len(s)
    IN  IF n % 2 = 1 THEN s[(n + 1) \div 2]
        ELSE RDiv(RAdd(s[n \div 2], s[n \div 2 + 1]), RInt(2))

----------------------------------------------------------------------------
(* mcmc.credible_interval: the module mcmc is not part of the available     *)
(* source; it is modelled from section 4.1 of the specification.            *)

\* the empirical quantile of a sorted array at fraction p: linear
\* interpolation between the order statistics at floor and ceiling of p*(n-1)
Quantile(sorted, p) ==
    CHOOSE r \in
        {LET n == Len(sorted)
             k == RFloor(h)
             frac == RSub(h, RInt(k))
             lo == sorted[k + 1]
             hi == sorted[IF k + 2 <= n THEN k + 2 ELSE n]
         IN  RAdd(lo, RMul(frac, RSub(hi, lo))) :
         h \in {RMul(p, RInt(Len(sorted) - 1))}} : TRUE

NoInterval == [ok |-> FALSE, lo |-> NaN, hi |-> NaN]

credible_interval(samples, ci) ==
    IF Len(samples) = 0 \/ ~(RLt(RInt(0), ci) /\ RLt(ci, RInt(1)))
    THEN NoInterval
    ELSE CHOOSE r \in
             {[ok |-> TRUE,
               lo |-> Quantile(s, p),
               hi |-> Quantile(s, RSub(RInt(1), p))] :
              s \in {Sort(samples)}, p \in {RDiv(RSub(RInt(1), ci), RInt(2))}} : TRUE

----------------------------------------------------------------------------
(* format_ci                                                                *)

\* default of the ci argument
DefaultCi == R(9, 10)

\* str.format with '{:#.<precision>f}': the value rounded (half to even) to
\* <precision> decimals, kept as <<precision, value * 10^precision>>
Pow10(p) == IF p = 3 THEN 1000 ELSE IF p = 2 THEN 100 ELSE IF p = 1 THEN 10 ELSE 1

RoundHalfEven(a) ==
    LET f == RFloor(a)
        r == RSub(a, RInt(f))
    IN  IF RLt(r, R(1, 2)) THEN f
        ELSE IF RLt(R(1, 2), r) THEN f + 1
        ELSE IF f % 2 = 0 THEN f ELSE f + 1

Format(precision, x) == <<precision, RoundHalfEven(RMul(x, RInt(Pow10(precision))))>>

\* line 681: the interval is requested at the caller's level
FciIntervalDefaultLevel(samples, ci) == credible_interval(samples, DefaultCi)

FciIntervalComplement(samples, ci) == credible_interval(samples, RSub(RInt(1), ci))

FciInterval(samples, ci) == credible_interval(samples, ci)

\* lines 683-684
FciLowerSwapped(median, cil) == RSub(cil, median)

FciLower(median, cil) == RSub(median, cil)

FciUpper(median, cih) == RSub(cih, median)

\* lines 688-693
FciPrecisionOr(median, ul) ==
    IF RLt(RAbs(median), R(2, 10)) \/ RLt(ul, R(2, 100)) THEN 3
    ELSE IF RLt(RAbs(median), RInt(1)) THEN 2
    ELSE 1

FciPrecision(median, ul) ==
    IF RLt(RAbs(median), R(2, 10)) /\ RLt(ul, R(2, 100)) THEN 3
    ELSE IF RLt(RAbs(median), RInt(1)) THEN 2
    ELSE 1

\* lines 695-701: the three numbers of the TeX string
FciText(precision, median, ul, uh) ==
    <<Format(precision, median), Format(precision, ul), Format(precision, uh)>>

FciIdle ==
    [pc |-> "idle", samples |-> <<>>, ci |-> RInt(0),
     cil |-> RInt(0), cih |-> RInt(0), median |-> RInt(0),
     ul |-> RInt(0), uh |-> RInt(0), precision |-> 0, text |-> <<>>]

\* sample values (thousandths) around the thresholds .02, .2 and 1
SampleValues == {R(k, 1000) : k \in {-300, 5, 15, 150, 400, 1200}}

SampleArrays == UNION {[1..n -> SampleValues] : n \in 0..MaxSamples}

Levels == {R(1, 2), R(4, 5), R(9, 10)}

BadLevels == {RInt(0), RInt(1), R(3, 2)}

FciInit ==
    fci \in {[FciIdle EXCEPT !.pc = "L681", !.samples = s, !.ci = c] :
                s \in SampleArrays, c \in Levels \cup BadLevels}

\* cil, cih = mcmc.credible_interval(samples, ci=ci)
FciCredibleInterval ==
    /\ fci.pc = "L681"
    /\ LET r == FciInterval(fci.samples, fci.ci)
       IN  fci' = IF r.ok
                  THEN [fci EXCEPT !.pc = "L682", !.cil = r.lo, !.cih = r.hi]
                  ELSE [fci EXCEPT !.pc = "raised"]
    /\ UNCHANGED <<val, pcs, bulk, post, ovl, ds, fsys, deco, eb, scr, clr, sel>>

\* median = np.median(samples); ul = median - cil; uh = cih - median
FciMedian ==
    /\ fci.pc = "L682"
    /\ LET median == Median(fci.samples)
       IN  fci' = [fci EXCEPT !.pc = "L688", !.median = median,
                              !.ul = FciLower(median, fci.cil),
                              !.uh = FciUpper(median, fci.cih)]
    /\ UNCHANGED <<val, pcs, bulk, post, ovl, ds, fsys, deco, eb, scr, clr, sel>>

FciChoosePrecision ==
    /\ fci.pc = "L688"
    /\ fci' = [fci EXCEPT !.pc = "L695",
                          !.precision = FciPrecision(fci.median, fci.ul)]
    /\ UNCHANGED <<val, pcs, bulk, post, ovl, ds, fsys, deco, eb, scr, clr, sel>>

FciReturn ==
    /\ fci.pc = "L695"
    /\ fci' = [fci EXCEPT !.pc = "done",
                          !.text = FciText(fci.precision, fci.median, fci.ul, fci.uh)]
    /\ UNCHANGED <<val, pcs, bulk, post, ovl, ds, fsys, deco, eb, scr, clr, sel>>

FciNext == FciCredibleInterval \/ FciMedian \/ FciChoosePrecision \/ FciReturn

----------------------------------------------------------------------------
(* validation_all and validation_example                                    *)

RECURSIVE Bisect(_, _, _)
Bisect(x, lo, hi) ==
    IF hi - lo <= 1 THEN lo
    ELSE LET mid == (lo + hi) \div 2
         IN  IF mid * mid <= x THEN Bisect(x, mid, hi) ELSE Bisect(x, lo, mid)

\* largest k with k*k <= x (x below 46340^2, the model's integer range)
ISqrt(x) == Bisect(x, 0, IF x < 46340 THEN x + 1 ELSE 46340)

\* np.sqrt: nan for nan and negatives (with a warning), inf for inf; a
\* finite root is kept to two decimals, rounded down (exact on the squares
\* of integers and of hundredths)
RSqrt(a) ==
    IF IsNaN(a) \/ a[1] < 0 THEN NaN
    ELSE IF IsInf(a) THEN PosInf
    ELSE Norm(ISqrt((a[1] * 10000) \div a[2]), 100)

RECURSIVE RSum(_)
RSum(s) == IF s = <<>> THEN RInt(0) ELSE RAdd(Head(s), RSum(Tail(s)))

\* ndarray.mean over a 1-D array
RMean(s) == RDiv(RSum(s), RInt(Len(s)))

Points == 1..NPoints
Bins == 1..NBins

\* ndarray.T of an (n, m, m) array: axes reversed
CovT(cov) == [a \in Bins |-> [b \in Bins |-> [i \in Points |-> cov[i][b][a]]]]

\* ndarray.diagonal() of an (m, m, n) array: the diagonal of the first two
\* axes becomes the last axis, giving shape (n, m)
Diagonal(A) == [i \in Points |-> [j \in Bins |-> A[j][j][i]]]

\* line 1541 / 1626: S_ = np.sqrt(cov[(obs, subobs), (obs, subobs)].T.diagonal())
ValStd(cov) ==
    LET d == Diagonal(CovT(cov))
    IN  [i \in Points |-> [j \in Bins |-> RSqrt(d[i][j])]]

\* line 1543 / 1651: Z = (Y_ - Y)/S_
ValResidualFlipped(y_, y, s_) == RDiv(RSub(y, y_), s_)

ValResidual(y_, y, s_) == RDiv(RSub(y_, y), s_)

ValZ(Y_, Y, S_) == [i \in Points |-> [j \in Bins |-> ValResidual(Y_[i][j], Y[i][j], S_[i][j])]]

Column(M, j) == [i \in Points |-> M[i][j]]

\* np.percentile(Z, [10, 25, 50, 75, 90], axis=0).T: one row of five
\* percentiles per bin; a nan in the column makes every percentile nan
Percentiles(col) ==
    IF \E i \in DOMAIN col : IsNaN(col[i])
    THEN [q \in 1..5 |-> NaN]
    ELSE LET sorted == Sort(col)
         IN  <<Quantile(sorted, R(10, 100)), Quantile(sorted, R(25, 100)),
               Quantile(sorted, R(50, 100)), Quantile(sorted, R(75, 100)),
               Quantile(sorted, R(90, 100))>>

\* line 1551: rms = 100*np.sqrt(np.square(Y_/Y - 1).mean(axis=0))
ValSquaredError(y_, y) ==
    LET e == RSub(RDiv(y_, y), RInt(1)) IN RMul(e, e)

ValRms(Y_, Y) ==
    [j \in Bins |->
        RMul(RInt(100),
             RSqrt(RMean([i \in Points |-> ValSquaredError(Y_[i][j], Y[i][j])])))]

\* emu.observables, flattened in loop order (lines 1535-1536)
ValKeys == << <<"dNch_deta", "None">>, <<"mean_pT", "pion">>, <<"mean_pT", "kaon">> >>

\* (model value, emulator mean) of one entry: either exact, or the emulator
\* under-predicting 4 as 3
EntryPairs == { <<RInt(2), RInt(2)>>, <<RInt(4), RInt(3)>> }

\* a model value that is exactly zero, predicted as 0 or as 3
ZeroPairs == { <<RInt(0), RInt(0)>>, <<RInt(0), RInt(3)>> }

\* the validation tables: no zero model value, or exactly one, at the first
\* design point
EntryTables ==
    [Points -> [Bins -> EntryPairs]]
    \cup {[t EXCEPT ![1][j] = z] :
            t \in [Points -> [Bins -> EntryPairs]], j \in Bins, z \in ZeroPairs}

\* predicted covariance blocks: standard deviation seed + (i-1) + NPoints*(j-1)
\* for point i and bin j (all distinct), correlation 1/2 between bins;
\* seed 0 gives a zero variance at point 1, bin 1
CovSeeds == {0, 1}

Sigma(seed, i, j) == seed + (i - 1) + NPoints * (j - 1)

CovOf(seed) ==
    [i \in Points |-> [j \in Bins |-> [jj \in Bins |->
        IF j = jj THEN RInt(Sigma(seed, i, j) * Sigma(seed, i, j))
        ELSE R(Sigma(seed, i, j) * Sigma(seed, i, jj), 2)]]]

ValIdle ==
    [pc |-> "idle", fn |-> "none", k |-> 0, cent |-> 0,
     Y |-> <<>>, Y_ |-> <<>>, cov |-> <<>>, S_ |-> <<>>, Z |-> <<>>, rms |-> <<>>,
     index |-> 0, i |-> 0, ticks |-> <<>>, boxes |-> <<>>, percentiles |-> <<>>,
     rmsx |-> <<>>]

ValInit ==
    \/ val = [ValIdle EXCEPT !.pc = "L1535", !.fn = "validation_all", !.index = 1]
    \/ \E c \in Bins :
          val = [ValIdle EXCEPT !.pc = "L1617", !.fn = "validation_example", !.cent = c]

\* lines 1539-1541: the arrays of the next (obs, subobs)
ValRead ==
    /\ val.pc = "L1535"
    /\ val.k < Len(ValKeys)
    /\ \E t \in EntryTables, seed \in CovSeeds :
          LET cov == CovOf(seed)
          IN  val' = [val EXCEPT !.pc = "L1543",
                          !.Y = [i \in Points |-> [j \in Bins |-> t[i][j][1]]],
                          !.Y_ = [i \in Points |-> [j \in Bins |-> t[i][j][2]]],
                          !.cov = cov,
                          !.S_ = ValStd(cov)]
    /\ UNCHANGED <<fci, pcs, bulk, post, ovl, ds, fsys, deco, eb, scr, clr, sel>>

\* lines 1543-1549: residuals and one box per bin at x = index, index+1, ...
\* (boxes and rmsx keep the x positions drawn so far; percentiles and rms are
\* the values drawn for the current key)
ValBoxes ==
    /\ val.pc = "L1543"
    /\ LET Z == ValZ(val.Y_, val.Y, val.S_)
       IN  val' = [val EXCEPT !.pc = "L1551",
                       !.Z = Z,
                       !.boxes = @ \o [j \in Bins |-> val.index + j - 1],
                       !.percentiles = [j \in Bins |-> Percentiles(Column(Z, j))],
                       !.i = val.index + NBins - 1]
    /\ UNCHANGED <<fci, pcs, bulk, post, ovl, ds, fsys, deco, eb, scr, clr, sel>>

ValNextIndexAdjacent(i) == i + 1

\* line 1559: index = i + 2
ValNextIndex(i) == i + 2

\* lines 1551-1559: RMS % error per bin, its points, the tick, the next index
ValRmsPoints ==
    /\ val.pc = "L1551"
    /\ LET rms == ValRms(val.Y_, val.Y)
       IN  val' = [val EXCEPT !.pc = "L1559",
                       !.rms = rms,
                       !.rmsx = @ \o [j \in Bins |-> val.index + j - 1],
                       !.ticks = Append(@, R(val.index + val.i, 2)),
                       !.index = ValNextIndex(val.i),
                       !.k = @ + 1]
    /\ UNCHANGED <<fci, pcs, bulk, post, ovl, ds, fsys, deco, eb, scr, clr, sel>>

\* lines 1535-1536: back to the loop head; the arrays of the finished key
\* are rebound before they are read again, so they are dropped here
ValLoop ==
    /\ val.pc = "L1559"
    /\ val' = [val EXCEPT !.pc = "L1535",
                   !.Y = <<>>, !.Y_ = <<>>, !.cov = <<>>, !.S_ = <<>>,
                   !.Z = <<>>, !.rms = <<>>, !.percentiles = <<>>]
    /\ UNCHANGED <<fci, pcs, bulk, post, ovl, ds, fsys, deco, eb, scr, clr, sel>>

\* lines 1561-1594: axes are finished once every key is drawn
ValFinish ==
    /\ val.pc = "L1535"
    /\ val.k = Len(ValKeys)
    /\ val' = [val EXCEPT !.pc = "done"]
    /\ UNCHANGED <<fci, pcs, bulk, post, ovl, ds, fsys, deco, eb, scr, clr, sel>>

\* lines 1617-1626 of validation_example: one centrality column of each array
ValExampleRead ==
    /\ val.pc = "L1617"
    /\ \E t \in EntryTables, seed \in CovSeeds :
          LET cov == CovOf(seed)
          IN  val' = [val EXCEPT !.pc = "L1651",
                          !.Y = [i \in Points |-> t[i][val.cent][1]],
                          !.Y_ = [i \in Points |-> t[i][val.cent][2]],
                          !.cov = cov,
                          !.S_ = Column(ValStd(cov), val.cent)]
    /\ UNCHANGED <<fci, pcs, bulk, post, ovl, ds, fsys, deco, eb, scr, clr, sel>>

\* line 1651: z = (y_ - y)/std_, then its histogram and box
ValExampleResiduals ==
    /\ val.pc = "L1651"
    /\ LET z == [i \in Points |->
                    ValResidual(val.Y_[i], val.Y[i], val.S_[i])]
       IN  val' = [val EXCEPT !.pc = "done",
                       !.Z = z,
                       !.percentiles = Percentiles(z)]
    /\ UNCHANGED <<fci, pcs, bulk, post, ovl, ds, fsys, deco, eb, scr, clr, sel>>

ValNext ==
    \/ ValRead \/ ValBoxes \/ ValRmsPoints \/ ValLoop \/ ValFinish
    \/ ValExampleRead \/ ValExampleResiduals

----------------------------------------------------------------------------
(* pca                                                                      *)

Cloud == 1..NCloud

\* ndarray.mean(axis=0) / ndarray.std(axis=0) of one column
ColMean(c) == RMean(c)

ColVar(c) ==
    LET mu == ColMean(c)
    IN  RMean([i \in DOMAIN c |-> RMul(RSub(c[i], mu), RSub(c[i], mu))])

ColStd(c) == RSqrt(ColVar(c))

\* covariance of the two columns; its sign is the sign of their correlation
ColCov(x, y) ==
    LET mx == ColMean(x)
        my == ColMean(y)
    IN  RMean([i \in DOMAIN x |-> RMul(RSub(x[i], mx), RSub(y[i], my))])

\* |correlation| of the two columns (both variances positive)
AbsCorr(x, y) ==
    LET c == ColCov(x, y)
    IN  RSqrt(RDiv(RMul(c, c), RMul(ColVar(x), ColVar(y))))

\* PCA().fit on a standardised 2-D cloud: the correlation matrix has
\* eigenvalues 1 + |r| and 1 - |r|, hence these explained-variance ratios
ExplainedVarianceRatio(absr) ==
    << RDiv(RAdd(RInt(1), absr), RInt(2)), RDiv(RSub(RInt(1), absr), RInt(2)) >>

InvSqrt2 == RSqrt(R(1, 2))

Diag(s1, s2) == << RMul(RInt(s1), InvSqrt2), RMul(RInt(s2), InvSqrt2) >>

Axis(s1, s2) == << RInt(s1), RInt(s2) >>

Dot(u, v) == RAdd(RMul(u[1], v[1]), RMul(u[2], v[2]))

\* the rows of pca.components_: the eigenvectors (1, 1)/sqrt2 and (1, -1)/sqrt2
\* ordered by eigenvalue, each with the sign the SVD happens to give it; with
\* zero correlation the eigenvalues coincide and the SVD may return any
\* orthonormal pair (the axes themselves for uncorrelated columns)
Components(sgn) ==
    LET along == {Diag(1, 1), Diag(-1, -1)}
        across == {Diag(1, -1), Diag(-1, 1)}
        axes == {Axis(1, 0), Axis(-1, 0), Axis(0, 1), Axis(0, -1)}
        any == along \cup across \cup axes
    IN  IF sgn > 0 THEN along \X across
        ELSE IF sgn < 0 THEN across \X along
        ELSE {c \in any \X any : Dot(c[1], c[2]) = RInt(0)}

PcaScaledNoStd(xystd, ratio, components) ==
    [k \in 1..2 |-> [d \in 1..2 |-> RMul(RMul(RInt(7), ratio[k]), components[k][d])]]

\* lines 1376-1380: pc = 7 * xystd * explained_variance_ratio_[:, newaxis] * components_
PcaScaled(xystd, ratio, components) ==
    [k \in 1..2 |-> [d \in 1..2 |->
        RMul(RMul(RMul(RInt(7), xystd[d]), ratio[k]), components[k][d])]]

\* lines 1383-1384: if np.all(p < 0): p *= -1
PcaFlip(v) ==
    IF \A d \in 1..2 : RLt(v[d], RInt(0)) THEN [d \in 1..2 |-> RNeg(v[d])] ELSE v

RSign(a) == RInt(Sign(a[1]))

\* lines 1385-1396: the arrow from xymean to xymean + p and its label
PcaArrowOf(xymean, v, w) ==
    [tail |-> xymean,
     tip |-> [d \in 1..2 |-> RAdd(xymean[d], v[d])],
     text_at |-> << RAdd(RAdd(xymean[1], v[1]), RMul(R(8, 10), RSign(v[1]))),
                    RAdd(RAdd(xymean[2], v[2]), RMul(R(2, 1000), RSign(v[2]))) >>,
     s |-> RoundHalfEven(RMul(RInt(100), w)),
     va |-> IF RLt(v[2], RInt(0)) THEN "top" ELSE "bottom"]

PcaIdle ==
    [pc |-> "idle", x |-> <<>>, y |-> <<>>, xymean |-> <<>>, xystd |-> <<>>,
     xy |-> <<>>, ratio |-> <<>>, components |-> <<>>, pcv |-> <<>>,
     k |-> 0, arrows |-> <<>>]

\* the two columns read at lines 1351-1354
CloudValues == {RInt(0), RInt(2)}

PcaInit ==
    \E x \in [Cloud -> CloudValues], y \in [Cloud -> CloudValues] :
        pcs = [PcaIdle EXCEPT !.pc = "L1370", !.x = x, !.y = y]

\* lines 1370-1374: xy is a new array; it is centred and scaled in place
PcaStandardize ==
    /\ pcs.pc = "L1370"
    /\ LET xymean == << ColMean(pcs.x), ColMean(pcs.y) >>
           xystd == << ColStd(pcs.x), ColStd(pcs.y) >>
       IN  pcs' = [pcs EXCEPT !.pc = "L1375",
                       !.xymean = xymean,
                       !.xystd = xystd,
                       !.xy = [i \in Cloud |->
                                << RDiv(RSub(pcs.x[i], xymean[1]), xystd[1]),
                                   RDiv(RSub(pcs.y[i], xymean[2]), xystd[2]) >>]]
    /\ UNCHANGED <<fci, val, bulk, post, ovl, ds, fsys, deco, eb, scr, clr, sel>>

\* lines 1375-1380: PCA().fit rejects a cloud with nan or inf entries
\* (a constant column divided by its zero std) with a ValueError
PcaFit ==
    /\ pcs.pc = "L1375"
    /\ IF \E i \in Cloud, d \in 1..2 : ~IsFinite(pcs.xy[i][d])
       THEN pcs' = [pcs EXCEPT !.pc = "raised"]
       ELSE \E c \in Components(Sign(ColCov(pcs.x, pcs.y)[1])) :
               LET ratio == ExplainedVarianceRatio(AbsCorr(pcs.x, pcs.y))
               IN  pcs' = [pcs EXCEPT !.pc = "L1382",
                               !.ratio = ratio,
                               !.components = c,
                               !.pcv = PcaScaled(pcs.xystd, ratio, c)]
    /\ UNCHANGED <<fci, val, bulk, post, ovl, ds, fsys, deco, eb, scr, clr, sel>>

\* lines 1382-1396: one arrow and label per principal direction; p is a row
\* of pc and is negated in place
PcaArrow ==
    /\ pcs.pc = "L1382"
    /\ pcs.k < 2
    /\ LET k == pcs.k + 1
           v == PcaFlip(pcs.pcv[k])
       IN  pcs' = [pcs EXCEPT !.k = k,
                       !.pcv[k] = v,
                       !.arrows = Append(@, PcaArrowOf(pcs.xymean, v, pcs.ratio[k]))]
    /\ UNCHANGED <<fci, val, bulk, post, ovl, ds, fsys, deco, eb, scr, clr, sel>>

\* lines 1398-1410: axes cosmetics
PcaFinish ==
    /\ pcs.pc = "L1382"
    /\ pcs.k = 2
    /\ pcs' = [pcs EXCEPT !.pc = "done"]
    /\ UNCHANGED <<fci, val, bulk, post, ovl, ds, fsys, deco, eb, scr, clr, sel>>

PcaNext == PcaStandardize \/ PcaFit \/ PcaArrow \/ PcaFinish

----------------------------------------------------------------------------
(* _region_bulk                                                             *)

\* GaussianMixture(n_components=3, ...)
n_components == 3

Tc == R(154, 1000)

\* T = Tc*np.linspace(.5, 1.5, 1000), kept at its first, middle and last value
TGrid == << RMul(Tc, R(1, 2)), Tc, RMul(Tc, R(3, 2)) >>

\* lines 978-979
zetas(T, zetas_max, zetas_width) ==
    CHOOSE r \in {RDiv(zetas_max, RAdd(RInt(1), RMul(u, u))) :
                  u \in {RDiv(RSub(T, Tc), zetas_width)}} : TRUE

\* np.argmax: the first index (from 0) of the largest entry
ArgMax(row) ==
    CHOOSE c \in 0..(Len(row) - 1) :
        /\ \A d \in 0..(Len(row) - 1) : row[d + 1] <= row[c + 1]
        /\ \A d \in 0..(c - 1) : row[d + 1] < row[c + 1]

\* line 1019: gmm.predict gives each row the component of highest
\* posterior responsibility
BulkPredictLabels(resp) == [i \in DOMAIN resp |-> ArgMax(resp[i])]

\* line 1024: samples[labels == n], as row indices
BulkSelectUpTo(labels, n) == {i \in DOMAIN labels : labels[i] <= n}

BulkSelect(labels, n) == {i \in DOMAIN labels : labels[i] = n}

\* the rows of a set of indices, in index order
RECURSIVE RowsOf(_, _, _)
RowsOf(samples, rows, i) ==
    IF i > Len(samples) THEN <<>>
    ELSE (IF i \in rows THEN <<samples[i]>> ELSE <<>>) \o RowsOf(samples, rows, i + 1)

NoParams == [ok |-> FALSE, zetas_max |-> NaN, zetas_width |-> NaN]

\* lines 1022-1025: per key, the upper bound of the default credible
\* interval of the group's column; an empty group's columns are empty arrays
BulkParamsOrZero(group) ==
    IF Len(group) = 0
    THEN [ok |-> TRUE, zetas_max |-> RInt(0), zetas_width |-> RInt(1)]
    ELSE [ok |-> TRUE,
          zetas_max |-> credible_interval([i \in DOMAIN group |-> group[i][1]], DefaultCi).hi,
          zetas_width |-> credible_interval([i \in DOMAIN group |-> group[i][2]], DefaultCi).hi]

BulkParamsLower(group) ==
    LET cmax == credible_interval([i \in DOMAIN group |-> group[i][1]], DefaultCi)
        cwidth == credible_interval([i \in DOMAIN group |-> group[i][2]], DefaultCi)
    IN  IF cmax.ok /\ cwidth.ok
        THEN [ok |-> TRUE, zetas_max |-> cmax.lo, zetas_width |-> cwidth.lo]
        ELSE NoParams

BulkParams(group) ==
    CHOOSE r \in
        {IF cmax.ok /\ cwidth.ok
         THEN [ok |-> TRUE, zetas_max |-> cmax.hi, zetas_width |-> cwidth.hi]
         ELSE NoParams :
         cmax \in {credible_interval([i \in DOMAIN group |-> group[i][1]], DefaultCi)},
         cwidth \in {credible_interval([i \in DOMAIN group |-> group[i][2]], DefaultCi)}} : TRUE

\* lines 1027-1032
BulkCmapWidthFirst(params) ==
    IF RLt(R(3, 100), params.zetas_width) THEN "Greens"
    ELSE IF RLt(R(5, 100), params.zetas_max) THEN "Blues"
    ELSE "Oranges"

BulkCmap(params) ==
    IF RLt(R(5, 100), params.zetas_max) THEN "Blues"
    ELSE IF RLt(R(3, 100), params.zetas_width) THEN "Greens"
    ELSE "Oranges"

\* line 1034
BulkCurve(params) ==
    [t \in DOMAIN TGrid |-> zetas(TGrid[t], params.zetas_max, params.zetas_width)]

\* GaussianMixture(...) at line 1018 leaves max_iter at the library default
max_iter == 100

\* the expectation-maximisation loop counter: range(1, max_iter + 1)
BulkNextIterStuck(iter) == iter

BulkNextIter(iter) == iter + 1

BulkIdle ==
    [pc |-> "idle", mode |-> "none", samples |-> <<>>, iter |-> 0, resp |-> <<>>,
     labels |-> <<>>, n |-> 0, groups |-> <<>>, drawn |-> <<>>]

BulkInit ==
    \E mode \in {"full", "empty", "examples"} :
        bulk = [BulkIdle EXCEPT !.pc = "L1004", !.mode = mode]

\* (zetas_max, zetas_width) rows on either side of the thresholds .05 and .03
RowValues == { <<R(8, 100), R(2, 100)>>, <<R(3, 100), R(4, 100)>>, <<R(3, 100), R(1, 100)>> }

SampleMatrices == UNION {[1..r -> RowValues] : r \in 0..MaxRows}

\* the fitted posterior responsibilities of one row, in halves: one
\* component certain, or the first two tied
Responsibilities == { <<2, 0, 0>>, <<0, 2, 0>>, <<0, 0, 2>>, <<1, 1, 0>> }

\* lines 1004-1014: the 'empty' and 'examples' modes return before the fit
BulkReturnEarly ==
    /\ bulk.pc = "L1004"
    /\ bulk.mode \in {"empty", "examples"}
    /\ bulk' = [bulk EXCEPT !.pc = "done"]
    /\ UNCHANGED <<fci, val, pcs, post, ovl, ds, fsys, deco, eb, scr, clr, sel>>

\* line 1017: samples = chain.load(*keys, thin=10)
BulkLoad ==
    /\ bulk.pc = "L1004"
    /\ bulk.mode = "full"
    /\ \E m \in SampleMatrices : bulk' = [bulk EXCEPT !.pc = "L1018", !.samples = m]
    /\ UNCHANGED <<fci, val, pcs, post, ovl, ds, fsys, deco, eb, scr, clr, sel>>

\* line 1018, inside fit: one more expectation-maximisation iteration, of at
\* most max_iter
BulkFitIterate ==
    /\ bulk.pc = "L1018"
    /\ Len(bulk.samples) >= n_components
    /\ bulk.iter < max_iter
    /\ bulk' = [bulk EXCEPT !.iter = BulkNextIter(@)]
    /\ UNCHANGED <<fci, val, pcs, post, ovl, ds, fsys, deco, eb, scr, clr, sel>>

\* line 1018, inside fit: the loop stops after an iteration, converged or
\* the last one allowed; fit raises ValueError before the loop for fewer rows
\* than components
BulkFitStop ==
    /\ bulk.pc = "L1018"
    /\ IF Len(bulk.samples) < n_components
       THEN bulk' = [bulk EXCEPT !.pc = "raised"]
       ELSE /\ bulk.iter >= 1
            /\ bulk' = [bulk EXCEPT !.pc = "L1018e", !.iter = 0]
    /\ UNCHANGED <<fci, val, pcs, post, ovl, ds, fsys, deco, eb, scr, clr, sel>>

\* line 1018, end of fit: the final expectation step leaves some
\* responsibilities (the optimum found is not unique)
BulkFit ==
    /\ bulk.pc = "L1018e"
    /\ \E r \in [DOMAIN bulk.samples -> Responsibilities] :
          bulk' = [bulk EXCEPT !.pc = "L1019", !.resp = r]
    /\ UNCHANGED <<fci, val, pcs, post, ovl, ds, fsys, deco, eb, scr, clr, sel>>

BulkPredict ==
    /\ bulk.pc = "L1019"
    /\ bulk' = [bulk EXCEPT !.pc = "L1021", !.labels = BulkPredictLabels(bulk.resp)]
    /\ UNCHANGED <<fci, val, pcs, post, ovl, ds, fsys, deco, eb, scr, clr, sel>>

\* lines 1021-1038: one curve per label n = 0, 1, 2; credible_interval
\* raising on an empty group ends the function
BulkGroup ==
    /\ bulk.pc = "L1021"
    /\ bulk.n < n_components
    /\ \E rows \in {BulkSelect(bulk.labels, bulk.n)} :
       \E group \in {RowsOf(bulk.samples, rows, 1)} :
       \E params \in {BulkParams(group)} :
           bulk' = IF params.ok
                   THEN [bulk EXCEPT !.n = @ + 1,
                                     !.groups = Append(@, rows),
                                     !.drawn = Append(@, [n |-> bulk.n,
                                                          params |-> params,
                                                          cmap |-> BulkCmap(params),
                                                          curve |-> BulkCurve(params)])]
                   ELSE [bulk EXCEPT !.pc = "raised", !.groups = Append(@, rows)]
    /\ UNCHANGED <<fci, val, pcs, post, ovl, ds, fsys, deco, eb, scr, clr, sel>>

\* line 1040
BulkLegend ==
    /\ bulk.pc = "L1021"
    /\ bulk.n = n_components
    /\ bulk' = [bulk EXCEPT !.pc = "done"]
    /\ UNCHANGED <<fci, val, pcs, post, ovl, ds, fsys, deco, eb, scr, clr, sel>>

BulkNext ==
    \/ BulkReturnEarly \/ BulkLoad \/ BulkFitIterate \/ BulkFitStop \/ BulkFit
    \/ BulkPredict
    \/ BulkGroup \/ BulkLegend


----------------------------------------------------------------------------
(* Histogram smoothing in _posterior and posterior_p                        *)

\* np.histogram(..., bins=50), scaled down
NHistBins == 3

\* the largest count of one bin
MaxCount == 2

\* line 747 / 833: 10*x.size evaluation points
PointsPerBin == 10

RMin(a, b) == IF RLe(a, b) THEN a ELSE b

RMax(a, b) == IF RLe(a, b) THEN b ELSE a

\* np.histogram: bins + 1 equally spaced edges over the range
HistEdges(lim) ==
    [k \in 1..(NHistBins + 1) |->
        RAdd(lim[1], RMul(R(k - 1, NHistBins), RSub(lim[2], lim[1])))]

\* x = (edges[1:] + edges[:-1]) / 2
HistCentres(edges) ==
    [k \in 1..(Len(edges) - 1) |-> RDiv(RAdd(edges[k + 1], edges[k]), RInt(2))]

RECURSIVE CountsMaxFrom(_, _)
CountsMaxFrom(counts, k) ==
    IF k > Len(counts) THEN 0
    ELSE LET rest == CountsMaxFrom(counts, k + 1)
         IN  IF counts[k] >= rest THEN counts[k] ELSE rest

\* counts.max()
CountsMax(counts) == CountsMaxFrom(counts, 1)

\* line 744: y = .85 * (lim[1] - lim[0]) * counts / counts.max() + lim[0]
PosteriorHeights(lim, counts) ==
    [k \in DOMAIN counts |->
        RAdd(RDiv(RMul(RMul(R(85, 100), RSub(lim[2], lim[1])), RInt(counts[k])),
                  RInt(CountsMax(counts))),
             lim[1])]

\* line 831: y = counts / counts.max()
PosteriorPHeights(counts) ==
    [k \in DOMAIN counts |-> RDiv(RInt(counts[k]), RInt(CountsMax(counts)))]

\* PchipInterpolator: interval widths and secant slopes
PchipSteps(x) == [k \in 1..(Len(x) - 1) |-> RSub(x[k + 1], x[k])]

PchipSlopes(x, y) ==
    [k \in 1..(Len(x) - 1) |-> RDiv(RSub(y[k + 1], y[k]), RSub(x[k + 1], x[k]))]

\* PchipInterpolator._edge_case: the shape-preserving three-point end slope
PchipEdge(h0, h1, m0, m1) ==
    LET d == RDiv(RSub(RMul(RAdd(RMul(RInt(2), h0), h1), m0), RMul(h0, m1)),
                  RAdd(h0, h1))
    IN  IF RSign(d) # RSign(m0) THEN RInt(0)
        ELSE IF RSign(m0) # RSign(m1) /\ RLt(RMul(RInt(3), RAbs(m0)), RAbs(d))
             THEN RMul(RInt(3), m0)
        ELSE d

\* the interior slope: 0 at a local extremum or flat secant, else the
\* weighted harmonic mean of the two secant slopes
PchipInnerArithmetic(h0, h1, m0, m1) == RDiv(RAdd(m0, m1), RInt(2))

PchipInner(h0, h1, m0, m1) ==
    IF RSign(m0) # RSign(m1) \/ m0 = RInt(0) \/ m1 = RInt(0) THEN RInt(0)
    ELSE LET w1 == RAdd(RMul(RInt(2), h1), h0)
             w2 == RAdd(h1, RMul(RInt(2), h0))
             whmean == RDiv(RAdd(RDiv(w1, m0), RDiv(w2, m1)), RAdd(w1, w2))
         IN  RDiv(RInt(1), whmean)

\* PchipInterpolator._find_derivatives
PchipDerivatives(x, y) ==
    LET n == Len(x)
        h == PchipSteps(x)
        m == PchipSlopes(x, y)
    IN  IF n = 2 THEN <<m[1], m[1]>>
        ELSE [k \in 1..n |->
                IF k = 1 THEN PchipEdge(h[1], h[2], m[1], m[2])
                ELSE IF k = n THEN PchipEdge(h[n - 1], h[n - 2], m[n - 1], m[n - 2])
                ELSE PchipInner(h[k - 1], h[k], m[k - 1], m[k])]

\* the polynomial piece used at t: x[k] <= t < x[k+1], the last piece
\* including its right end
PchipInterval(x, t) ==
    IF RLe(x[Len(x)], t) THEN Len(x) - 1
    ELSE CHOOSE k \in 1..(Len(x) - 1) :
            (k = 1 \/ RLe(x[k], t)) /\ RLt(t, x[k + 1])

\* the cubic Hermite piece through (x[k], y[k]), (x[k+1], y[k+1]) with end
\* slopes d[k], d[k+1], at t
PchipEvalNoConstant(x, y, d, t) ==
    LET k == PchipInterval(x, t)
        h == RSub(x[k + 1], x[k])
        s == RDiv(RSub(t, x[k]), h)
        s2 == RMul(s, s)
        s3 == RMul(s2, s)
        h00 == RSub(RMul(RInt(2), s3), RMul(RInt(3), s2))
        h10 == RAdd(RSub(s3, RMul(RInt(2), s2)), s)
        h01 == RSub(RMul(RInt(3), s2), RMul(RInt(2), s3))
        h11 == RSub(s3, s2)
    IN  RAdd(RAdd(RMul(h00, y[k]), RMul(h10, RMul(h, d[k]))),
             RAdd(RMul(h01, y[k + 1]), RMul(h11, RMul(h, d[k + 1]))))

PchipEval(x, y, d, t) ==
    LET k == PchipInterval(x, t)
        h == RSub(x[k + 1], x[k])
        s == RDiv(RSub(t, x[k]), h)
        s2 == RMul(s, s)
        s3 == RMul(s2, s)
        h00 == RAdd(RSub(RMul(RInt(2), s3), RMul(RInt(3), s2)), RInt(1))
        h10 == RAdd(RSub(s3, RMul(RInt(2), s2)), s)
        h01 == RSub(RMul(RInt(3), s2), RMul(RInt(2), s3))
        h11 == RSub(s3, s2)
    IN  RAdd(RAdd(RMul(h00, y[k]), RMul(h10, RMul(h, d[k]))),
             RAdd(RMul(h01, y[k + 1]), RMul(h11, RMul(h, d[k + 1]))))

\* np.linspace(start, stop, num): num evenly spaced points, both ends included
LinspaceNoEndpoint(start, stop, num) ==
    [j \in 1..num |-> RAdd(start, RMul(R(j - 1, num), RSub(stop, start)))]

Linspace(start, stop, num) ==
    [j \in 1..num |-> RAdd(start, RMul(R(j - 1, num - 1), RSub(stop, start)))]

PostIdle ==
    [pc |-> "idle", fn |-> "none", lim |-> <<>>, counts |-> <<>>,
     x |-> <<>>, y |-> <<>>, d |-> <<>>, xs |-> <<>>, ys |-> <<>>]

\* the histogram range: a parameter's prior range (_posterior) or the data's
\* extent (posterior_p)
PostRanges == { <<RInt(0), RInt(1)>>, <<RInt(-1), RInt(2)>> }

\* the histograms of a non-empty sample array inside the range
PostCounts == {c \in [1..NHistBins -> 0..MaxCount] : \E k \in 1..NHistBins : c[k] > 0}

PostInit ==
    \E fn \in {"_posterior", "posterior_p"}, lim \in PostRanges :
        post = [PostIdle EXCEPT !.pc = "histogram", !.fn = fn, !.lim = lim]

\* lines 742-744 / 829-831
PostHistogram ==
    /\ post.pc = "histogram"
    /\ \E counts \in PostCounts :
          post' = [post EXCEPT !.pc = "interp",
                               !.counts = counts,
                               !.x = HistCentres(HistEdges(post.lim)),
                               !.y = IF post.fn = "_posterior"
                                     THEN PosteriorHeights(post.lim, counts)
                                     ELSE PosteriorPHeights(counts)]
    /\ UNCHANGED <<fci, val, pcs, bulk, ovl, ds, fsys, deco, eb, scr, clr, sel>>

\* line 746 / 832: interp = PchipInterpolator(x, y)
PostInterpolate ==
    /\ post.pc = "interp"
    /\ post' = [post EXCEPT !.pc = "linspace", !.d = PchipDerivatives(post.x, post.y)]
    /\ UNCHANGED <<fci, val, pcs, bulk, ovl, ds, fsys, deco, eb, scr, clr, sel>>

\* line 747 / 833: x = np.linspace(x[0], x[-1], 10*x.size)
PostLinspace ==
    /\ post.pc = "linspace"
    /\ post' = [post EXCEPT !.pc = "eval",
                            !.xs = Linspace(post.x[1], post.x[Len(post.x)],
                                            PointsPerBin * Len(post.x))]
    /\ UNCHANGED <<fci, val, pcs, bulk, ovl, ds, fsys, deco, eb, scr, clr, sel>>

\* line 748 / 834: y = interp(x)
PostEvaluate ==
    /\ post.pc = "eval"
    /\ post' = [post EXCEPT !.pc = "plot",
                            !.ys = [j \in DOMAIN post.xs |->
                                       PchipEval(post.x, post.y, post.d, post.xs[j])]]
    /\ UNCHANGED <<fci, val, pcs, bulk, ovl, ds, fsys, deco, eb, scr, clr, sel>>

\* lines 749-750 / 835-836: ax.plot and ax.fill_between
PostPlot ==
    /\ post.pc = "plot"
    /\ post' = [post EXCEPT !.pc = "done"]
    /\ UNCHANGED <<fci, val, pcs, bulk, ovl, ds, fsys, deco, eb, scr, clr, sel>>

PostNext ==
    \/ PostHistogram \/ PostInterpolate \/ PostLinspace \/ PostEvaluate \/ PostPlot

----------------------------------------------------------------------------
(* Experimental overlays: _observables, observables_map, find_map,          *)
(* flow_corr and flow_extra                                                 *)

\* the collision systems the plot functions loop over
systems == {"PbPb2760", "PbPb5020"}

OverlayObs == {"sc"}

OverlaySubobs == {<<4, 2>>, <<3, 2>>}

\* one loop iteration per (system, obs, subobs)
OverlayKeys ==
    << <<"PbPb2760", "sc", <<4, 2>> >>, <<"PbPb5020", "sc", <<4, 2>> >>,
       <<"PbPb2760", "sc", <<3, 2>> >>, <<"PbPb5020", "sc", <<3, 2>> >> >>

\* expt.data: nested dicts system -> obs -> subobs, any level may lack a key
ExptObsMaps == UNION {[O -> SUBSET OverlaySubobs] : O \in SUBSET OverlayObs}

ExptDatasets == UNION {[S -> ExptObsMaps] : S \in SUBSET systems}

\* expt.data[system][obs][subobs] does not raise KeyError
ExptHas(expt, key) ==
    /\ key[1] \in DOMAIN expt
    /\ key[2] \in DOMAIN expt[key[1]]
    /\ key[3] \in expt[key[1]][key[2]]

\* the functions that wrap the lookup in try/except KeyError: continue
OverlayGuarded == {"_observables", "observables_map", "find_map", "flow_extra"}

OverlayFunctions == OverlayGuarded \cup {"flow_corr"}

OvlIdle ==
    [pc |-> "idle", fn |-> "none", expt |-> <<>>, i |-> 0, pred |-> FALSE,
     model |-> {}, overlay |-> {}]

\* the first statement of an iteration
OvlHead(fn) == IF fn = "flow_corr" THEN "pred" ELSE "model"

OvlInit ==
    \E fn \in OverlayFunctions, expt \in ExptDatasets :
        ovl = [OvlIdle EXCEPT !.pc = OvlHead(fn), !.fn = fn, !.expt = expt, !.i = 1]

\* flow_corr line 1093: pred = obs not in expt.data[sys]
OvlPred ==
    /\ ovl.pc = "pred"
    /\ ovl.i <= Len(OverlayKeys)
    /\ LET key == OverlayKeys[ovl.i]
       IN  ovl' = IF key[1] \notin DOMAIN ovl.expt
                  THEN [ovl EXCEPT !.pc = "raised"]
                  ELSE [ovl EXCEPT !.pc = "model",
                                   !.pred = key[2] \notin DOMAIN ovl.expt[key[1]]]
    /\ UNCHANGED <<fci, val, pcs, bulk, post, ds, fsys, deco, eb, scr, clr, sel>>

\* the model curve of the key: lines 293-305, 434-439, 592-597, 1114-1118,
\* 1190-1195; flow_corr then skips a predicted observable (lines 1120-1121)
OvlModelCurve ==
    /\ ovl.pc = "model"
    /\ ovl.i <= Len(OverlayKeys)
    /\ ovl' = IF ovl.fn = "flow_corr" /\ ovl.pred
              THEN [ovl EXCEPT !.pc = OvlHead(ovl.fn), !.i = @ + 1,
                               !.model = @ \cup {ovl.i}, !.pred = FALSE]
              ELSE [ovl EXCEPT !.pc = "expt", !.model = @ \cup {ovl.i}]
    /\ UNCHANGED <<fci, val, pcs, bulk, post, ds, fsys, deco, eb, scr, clr, sel>>

\* the experimental overlay of the key: try/except KeyError: continue at
\* lines 315-318, 449-452, 607-610, 1197-1200; a bare lookup at flow_corr
\* lines 1123-1125
OvlExperiment ==
    /\ ovl.pc = "expt"
    /\ ovl' = IF ExptHas(ovl.expt, OverlayKeys[ovl.i])
              THEN [ovl EXCEPT !.pc = OvlHead(ovl.fn), !.i = @ + 1,
                               !.overlay = @ \cup {ovl.i}]
              ELSE IF ovl.fn \in OverlayGuarded
                   THEN [ovl EXCEPT !.pc = OvlHead(ovl.fn), !.i = @ + 1]
                   ELSE [ovl EXCEPT !.pc = "raised"]
    /\ UNCHANGED <<fci, val, pcs, bulk, post, ds, fsys, deco, eb, scr, clr, sel>>

\* the loops are exhausted
OvlFinish ==
    /\ ovl.pc \in {"pred", "model"}
    /\ ovl.i > Len(OverlayKeys)
    /\ ovl' = [ovl EXCEPT !.pc = "done"]
    /\ UNCHANGED <<fci, val, pcs, bulk, post, ds, fsys, deco, eb, scr, clr, sel>>

OvlNext == OvlPred \/ OvlModelCurve \/ OvlExperiment \/ OvlFinish

----------------------------------------------------------------------------
(* Arrays and aliasing: the datasets and the arrays the plot functions      *)
(* derive from them (pca, _observables, _posterior)                         *)

\* the length of a dataset array
NData == 2

\* the arrays owned by the Model, Experiment and sample (chain) datasets
DatasetIds == {"model.x", "model.y", "expt.y", "chain"}

\* the buffers a plot function allocates itself
LocalIds == {"xy0", "xy1", "pc", "Y", "yexp", "samples"}

\* a slice of a dataset array is a view: it shares the dataset's buffer.
\* np.column_stack, Y*scale, y*scale and samples**(1/3) allocate a new
\* buffer (fresh) and leave their operand's buffer (src) alone
DsSameBuffer(src, fresh) == src

DsNewBuffer(src, fresh) == fresh

\* perfect cubes, so that samples**(1/3) is exact
CubeRoot(a) ==
    IF a = RInt(0) THEN RInt(0)
    ELSE IF a = RInt(1) THEN RInt(1)
    ELSE IF a = RInt(8) THEN RInt(2)
    ELSE NaN

DsNoRefs == [name \in {"x", "y", "xy0", "xy1", "p", "Y", "yexp", "samples"} |-> "none"]

DsIdle ==
    [pc |-> "idle", fn |-> "none", scale |-> RInt(1), heap |-> <<>>, orig |-> <<>>,
     ref |-> DsNoRefs]

DataValues == {RInt(0), RInt(8)}

DataArrays == [1..NData -> DataValues]

\* the datasets as the external collaborators constructed them
DsInit ==
    \E mx \in DataArrays, my \in DataArrays, ey \in DataArrays, ch \in DataArrays :
        LET data == [id \in DatasetIds |->
                        IF id = "model.x" THEN mx
                        ELSE IF id = "model.y" THEN my
                        ELSE IF id = "expt.y" THEN ey
                        ELSE ch]
        IN  ds = [DsIdle EXCEPT !.pc = "ready",
                                !.orig = data,
                                !.heap = [id \in DatasetIds \cup LocalIds |->
                                             IF id \in DatasetIds THEN data[id] ELSE <<>>]]

\* the array a name is bound to
DsArray(name) == ds.heap[ds.ref[name]]

\* a plot function is called; the locals of the previous call are gone
DsCall ==
    /\ ds.pc \in {"ready", "done"}
    /\ \E fn \in {"pca", "_observables", "_posterior"}, scale \in {RInt(1), RInt(2)} :
          ds' = [ds EXCEPT !.pc = IF fn = "pca" THEN "L1351"
                                  ELSE IF fn = "_observables" THEN "L293"
                                  ELSE "L741",
                           !.fn = fn,
                           !.scale = IF fn = "_observables" THEN scale ELSE RInt(1),
                           !.ref = DsNoRefs,
                           !.heap = [id \in DOMAIN ds.heap |->
                                        IF id \in LocalIds THEN <<>> ELSE ds.heap[id]]]
    /\ UNCHANGED <<fci, val, pcs, bulk, post, ovl, fsys, deco, eb, scr, clr, sel>>

\* pca lines 1351-1354: x, y are column slices (views) of model.data
DsPcaSlice ==
    /\ ds.pc = "L1351"
    /\ ds' = [ds EXCEPT !.pc = "L1370", !.ref["x"] = "model.x", !.ref["y"] = "model.y"]
    /\ UNCHANGED <<fci, val, pcs, bulk, post, ovl, fsys, deco, eb, scr, clr, sel>>

\* pca line 1370: xy = np.column_stack([x, y])
DsPcaColumnStack ==
    /\ ds.pc = "L1370"
    /\ LET t0 == DsNewBuffer(ds.ref["x"], "xy0")
           t1 == DsNewBuffer(ds.ref["y"], "xy1")
       IN  ds' = [ds EXCEPT !.pc = "L1373",
                            !.ref["xy0"] = t0, !.ref["xy1"] = t1,
                            !.heap[t0] = DsArray("x"), !.heap[t1] = DsArray("y")]
    /\ UNCHANGED <<fci, val, pcs, bulk, post, ovl, fsys, deco, eb, scr, clr, sel>>

\* pca lines 1371-1374: xy -= xymean; xy /= xystd, in place
DsPcaStandardize ==
    /\ ds.pc = "L1373"
    /\ LET c0 == DsArray("xy0")
           c1 == DsArray("xy1")
       IN  ds' = [ds EXCEPT !.pc = "L1376",
                            !.heap[ds.ref["xy0"]] =
                                [i \in DOMAIN c0 |-> RDiv(RSub(c0[i], ColMean(c0)), ColStd(c0))],
                            !.heap[ds.ref["xy1"]] =
                                [i \in DOMAIN c1 |-> RDiv(RSub(c1[i], ColMean(c1)), ColStd(c1))]]
    /\ UNCHANGED <<fci, val, pcs, bulk, post, ovl, fsys, deco, eb, scr, clr, sel>>

\* pca lines 1376-1384: pc is a new array, p a row of it, negated in place
\* (the values of pc are those of PcaScaled; here a row of either sign)
DsPcaFlip ==
    /\ ds.pc = "L1376"
    /\ \E sgn \in {-1, 1} :
          LET p == [d \in 1..2 |-> RInt(sgn)]
          IN  ds' = [ds EXCEPT !.pc = "done",
                               !.ref["p"] = "pc",
                               !.heap["pc"] = PcaFlip(p)]
    /\ UNCHANGED <<fci, val, pcs, bulk, post, ovl, fsys, deco, eb, scr, clr, sel>>

\* _observables lines 293-298: Y is the dataset's own array
DsObsModel ==
    /\ ds.pc = "L293"
    /\ ds' = [ds EXCEPT !.pc = "L300", !.ref["Y"] = "model.y"]
    /\ UNCHANGED <<fci, val, pcs, bulk, post, ovl, fsys, deco, eb, scr, clr, sel>>

\* _observables lines 300-301: if scale is not None: Y = Y*scale
DsObsScaleModel ==
    /\ ds.pc = "L300"
    /\ IF ds.scale = RInt(1)
       THEN ds' = [ds EXCEPT !.pc = "L315"]
       ELSE LET t == DsNewBuffer(ds.ref["Y"], "Y")
            IN  ds' = [ds EXCEPT !.pc = "L315",
                                 !.ref["Y"] = t,
                                 !.heap[t] = [i \in DOMAIN DsArray("Y") |->
                                                 RMul(DsArray("Y")[i], ds.scale)]]
    /\ UNCHANGED <<fci, val, pcs, bulk, post, ovl, fsys, deco, eb, scr, clr, sel>>

\* _observables lines 315-321: y = dset['y'] is the dataset's own array
DsObsExpt ==
    /\ ds.pc = "L315"
    /\ ds' = [ds EXCEPT !.pc = "L326", !.ref["yexp"] = "expt.y"]
    /\ UNCHANGED <<fci, val, pcs, bulk, post, ovl, fsys, deco, eb, scr, clr, sel>>

\* _observables lines 326-328: if scale is not None: y = y*scale
DsObsScaleExpt ==
    /\ ds.pc = "L326"
    /\ IF ds.scale = RInt(1)
       THEN ds' = [ds EXCEPT !.pc = "done"]
       ELSE LET t == DsNewBuffer(ds.ref["yexp"], "yexp")
            IN  ds' = [ds EXCEPT !.pc = "done",
                                 !.ref["yexp"] = t,
                                 !.heap[t] = [i \in DOMAIN DsArray("yexp") |->
                                                 RMul(DsArray("yexp")[i], ds.scale)]]
    /\ UNCHANGED <<fci, val, pcs, bulk, post, ovl, fsys, deco, eb, scr, clr, sel>>

\* _posterior line 741: samples is a row of the loaded sample matrix
DsPosteriorRow ==
    /\ ds.pc = "L741"
    /\ ds' = [ds EXCEPT !.pc = "L756", !.ref["samples"] = "chain"]
    /\ UNCHANGED <<fci, val, pcs, bulk, post, ovl, fsys, deco, eb, scr, clr, sel>>

\* _posterior lines 756-757: if key == 'dmin3': samples = samples**(1/3)
DsPosteriorCubeRoot ==
    /\ ds.pc = "L756"
    /\ \E dmin3 \in BOOLEAN :
          IF ~dmin3
          THEN ds' = [ds EXCEPT !.pc = "done"]
          ELSE LET t == DsNewBuffer(ds.ref["samples"], "samples")
               IN  ds' = [ds EXCEPT !.pc = "done",
                                    !.ref["samples"] = t,
                                    !.heap[t] = [i \in DOMAIN DsArray("samples") |->
                                                    CubeRoot(DsArray("samples")[i])]]
    /\ UNCHANGED <<fci, val, pcs, bulk, post, ovl, fsys, deco, eb, scr, clr, sel>>

DsNext ==
    \/ DsCall
    \/ DsPcaSlice \/ DsPcaColumnStack \/ DsPcaStandardize \/ DsPcaFlip
    \/ DsObsModel \/ DsObsScaleModel \/ DsObsExpt \/ DsObsScaleExpt
    \/ DsPosteriorRow \/ DsPosteriorCubeRoot

----------------------------------------------------------------------------
(* format_system: display name of a collision system                        *)

\* projectile pairs and beam energies [GeV] of the system strings handed to
\* format_system; the docstring's two examples are among them
Projectiles == {<<"Pb", "Pb">>, <<"Au", "Au">>, <<"p", "Pb">>, <<"Xe", "Xe">>}

Energies == {200, 900, 1000, 1001, 2000, 2760, 5020, 13000}

Digit(d) == <<"0", "1", "2", "3", "4", "5", "6", "7", "8", "9">>[d + 1]

\* str() of a non-negative int
RECURSIVE IntStr(_)
IntStr(n) == IF n < 10 THEN Digit(n) ELSE IntStr(n \div 10) \o Digit(n % 10)

\* the last w decimal digits of r, leading zeros kept
RECURSIVE Padded(_, _)
Padded(r, w) == IF w = 0 THEN "" ELSE Padded(r \div 10, w - 1) \o Digit(r % 10)

\* the digits after the decimal point of r / 10^w, trailing zeros dropped
RECURSIVE Fraction(_, _)
Fraction(r, w) ==
    IF r = 0 THEN "0"
    ELSE IF r % 10 = 0 THEN Fraction(r \div 10, w - 1)
    ELSE Padded(r, w)

\* repr() of the float n / 1000: the shortest decimal that reads back as the
\* same float, which for a value with this few digits is the decimal itself
FloatRepr(n) == IntStr(n \div 1000) \o "." \o Fraction(n % 1000, 3)

\* '{}'.format of the energy: an int, or the float left by the true division
EnergyStr(e) == IF e.float THEN FloatRepr(e.milli) ELSE IntStr(e.milli \div 1000)

\* the system string, e.g. 'PbPb2760'
SystemName(proj, energy) == proj[1] \o proj[2] \o IntStr(energy)

\* parse_system: the projectile pair and the integer energy of a system string
parse_system(system) ==
    CHOOSE r \in Projectiles \X Energies : SystemName(r[1], r[2]) = system

\* '+'.join(proj)
Join(proj) == proj[1] \o "+" \o proj[2]

FsysAtLeast(energy) == energy >= 1000

\* energy > 1000
FsysAbove(energy) == energy > 1000

FsysIdle ==
    [pc |-> "idle", system |-> "", proj |-> <<>>,
     energy |-> [float |-> FALSE, milli |-> 0], prefix |-> "", result |-> ""]

FsysInit ==
    \E proj \in Projectiles, energy \in Energies :
        fsys = [FsysIdle EXCEPT !.pc = "L161", !.system = SystemName(proj, energy)]

\* proj, energy = parse_system(system)
FsysParse ==
    /\ fsys.pc = "L161"
    /\ LET r == parse_system(fsys.system)
       IN  fsys' = [fsys EXCEPT !.pc = "L163",
                                !.proj = r[1],
                                !.energy = [float |-> FALSE, milli |-> 1000 * r[2]]]
    /\ UNCHANGED <<fci, val, pcs, bulk, post, ovl, ds, deco, eb, scr, clr, sel>>

\* if energy > 1000: energy /= 1000; prefix = 'T'   else: prefix = 'G'
FsysPrefix ==
    /\ fsys.pc = "L163"
    /\ fsys' = IF FsysAbove(fsys.energy.milli \div 1000)
               THEN [fsys EXCEPT !.pc = "L169",
                                 !.energy = [float |-> TRUE, milli |-> @.milli \div 1000],
                                 !.prefix = "T"]
               ELSE [fsys EXCEPT !.pc = "L169", !.prefix = "G"]
    /\ UNCHANGED <<fci, val, pcs, bulk, post, ovl, ds, deco, eb, scr, clr, sel>>

\* return '{} {} {}eV'.format('+'.join(proj), energy, prefix)
FsysFormat ==
    /\ fsys.pc = "L169"
    /\ fsys' = [fsys EXCEPT !.pc = "done",
                            !.result = Join(fsys.proj) \o " " \o EnergyStr(fsys.energy)
                                       \o " " \o fsys.prefix \o "eV"]
    /\ UNCHANGED <<fci, val, pcs, bulk, post, ovl, ds, deco, eb, scr, clr, sel>>

FsysNext == FsysParse \/ FsysPrefix \/ FsysFormat

----------------------------------------------------------------------------
(* The plot decorator and set_tight                                         *)

\* f.__name__ of decorated functions, in the order the module defines them
PlotNames == <<"observables_design", "posterior_p", "pca">>

PlotFunctions == 1..Len(PlotNames)

\* keyword arguments the plot functions hand to set_tight:
\* set_tight(fig), set_tight(pad=0), set_tight(fig, h_pad=1)
Kwargs == {<<>>, [pad |-> RInt(0)], [h_pad |-> RInt(1)]}

\* a figure: whether it is open, its tight_layout flag and parameters
NoFigure == [open |-> FALSE, tight |-> FALSE, params |-> <<>>]

NewFigure == [open |-> TRUE, tight |-> FALSE, params |-> <<>>]

\* kwargs.setdefault('pad', .1)
SetDefaultPad(kwargs) ==
    IF "pad" \in DOMAIN kwargs THEN kwargs
    ELSE [k \in DOMAIN kwargs \cup {"pad"} |->
             IF k = "pad" THEN <<1, 10>> ELSE kwargs[k]]

\* fig.set_tight_layout(kwargs): the flag is the truth value of the dict
set_tight(fig, kwargs) ==
    LET kw == SetDefaultPad(kwargs)
    IN  [fig EXCEPT !.tight = DOMAIN kw # {}, !.params = kw]

DecoAlwaysDefault(fig) == TRUE

\* not fig.get_tight_layout()
DecoNeedsDefault(fig) == ~fig.tight

\* plotdir / '{}.pdf'.format(f.__name__), relative to workdir
PlotFile(f) == "plots/" \o PlotNames[f] \o ".pdf"

\* one step of a wrapper call: the operation, the function it belongs to, the
\* figure after it and the file it wrote ("" for none)
DecoEvent(op, f, fig, file) == [op |-> op, f |-> f, fig |-> fig, file |-> file]

DecoIdle ==
    [pc |-> "idle", plot_functions |-> <<>>, f |-> 0, fig |-> NoFigure,
     files |-> {}, trace |-> <<>>]

\* the module starts to load with an empty registry
DecoInit == deco = [DecoIdle EXCEPT !.pc = "import"]

\* @plot on the next function definition: plot_functions[f.__name__] = wrapper
DecoDecorate ==
    /\ deco.pc = "import"
    /\ LET f == Cardinality(DOMAIN deco.plot_functions) + 1
       IN  /\ f \in PlotFunctions
           /\ deco' = [deco EXCEPT
                  !.plot_functions =
                      [n \in DOMAIN deco.plot_functions \cup {PlotNames[f]} |->
                          IF n = PlotNames[f] THEN f ELSE deco.plot_functions[n]],
                  !.pc = IF f = Len(PlotNames) THEN "main" ELSE "import"]
    /\ UNCHANGED <<fci, val, pcs, bulk, post, ovl, ds, fsys, eb, scr, clr, sel>>

\* plot_functions[p](): the wrapper of a registered function is entered
DecoCall ==
    /\ deco.pc = "main"
    /\ \E p \in DOMAIN deco.plot_functions :
          deco' = [deco EXCEPT !.pc = "L103", !.f = deco.plot_functions[p],
                               !.fig = NoFigure, !.trace = <<>>]
    /\ UNCHANGED <<fci, val, pcs, bulk, post, ovl, ds, fsys, eb, scr, clr, sel>>

\* f(*args, **kwargs): the function draws its figure and leaves the layout
\* alone or calls set_tight with its own keyword arguments
DecoRun ==
    /\ deco.pc = "L103"
    /\ \E fig \in {NewFigure} \cup {set_tight(NewFigure, kw) : kw \in Kwargs} :
          deco' = [deco EXCEPT !.pc = "L105", !.fig = fig,
                               !.trace = Append(@, DecoEvent("f", deco.f, fig, ""))]
    /\ UNCHANGED <<fci, val, pcs, bulk, post, ovl, ds, fsys, eb, scr, clr, sel>>

\* f(*args, **kwargs) raises: the wrapper is left at once
DecoRaise ==
    /\ deco.pc = "L103"
    /\ deco' = [deco EXCEPT !.pc = "raised", !.fig = NewFigure]
    /\ UNCHANGED <<fci, val, pcs, bulk, post, ovl, ds, fsys, eb, scr, clr, sel>>

\* fig = plt.gcf(); if not fig.get_tight_layout(): set_tight(fig)
DecoLayout ==
    /\ deco.pc = "L105"
    /\ IF DecoNeedsDefault(deco.fig)
       THEN LET fig == set_tight(deco.fig, <<>>)
            IN  deco' = [deco EXCEPT !.pc = "L110", !.fig = fig,
                                     !.trace = Append(@, DecoEvent("set_tight", deco.f, fig, ""))]
       ELSE deco' = [deco EXCEPT !.pc = "L110"]
    /\ UNCHANGED <<fci, val, pcs, bulk, post, ovl, ds, fsys, eb, scr, clr, sel>>

\* fig.savefig(str(plotfile))
DecoSave ==
    /\ deco.pc = "L110"
    /\ deco' = [deco EXCEPT !.pc = "L113", !.files = @ \cup {PlotFile(deco.f)},
                            !.trace = Append(@, DecoEvent("savefig", deco.f, deco.fig,
                                                           PlotFile(deco.f)))]
    /\ UNCHANGED <<fci, val, pcs, bulk, post, ovl, ds, fsys, eb, scr, clr, sel>>

\* plt.close(fig)
DecoClose ==
    /\ deco.pc = "L113"
    /\ LET fig == [deco.fig EXCEPT !.open = FALSE]
       IN  deco' = [deco EXCEPT !.pc = "main", !.fig = fig,
                                !.trace = Append(@, DecoEvent("close", deco.f, fig, ""))]
    /\ UNCHANGED <<fci, val, pcs, bulk, post, ovl, ds, fsys, eb, scr, clr, sel>>

DecoNext ==
    \/ DecoDecorate \/ DecoCall \/ DecoRun \/ DecoRaise
    \/ DecoLayout \/ DecoSave \/ DecoClose

----------------------------------------------------------------------------
(* Experimental error bars in _observables                                  *)

ErrPoints == 1..NErrPoints

\* names of the error sources a data set may carry
ErrSources == {"stat", "sys"}

ErrValues == {RInt(3), RInt(4)}

\* dset['yerr']: an array per error source present
YerrMaps == UNION {[srcs -> [ErrPoints -> ErrValues]] : srcs \in SUBSET ErrSources}

\* opts.get('scale'): None, or the factor of dNch_deta (25) or dET_deta (5)
NoScale == <<>>

Scales == {NoScale, RInt(5), RInt(25)}

\* sum(e**2 for e in yerr.values()) at point i, starting from the int 0
RECURSIVE SumSquares(_, _, _)
SumSquares(yerr, srcs, i) ==
    IF srcs = {} THEN RInt(0)
    ELSE LET src == CHOOSE q \in srcs : TRUE
         IN  RAdd(RMul(yerr[src][i], yerr[src][i]), SumSquares(yerr, srcs \ {src}, i))

TotalErrorNoRoot(yerr, i) == SumSquares(yerr, DOMAIN yerr, i)

\* np.sqrt(sum(e**2 for e in dset['yerr'].values())) at point i
TotalError(yerr, i) == RSqrt(SumSquares(yerr, DOMAIN yerr, i))

EbIdle ==
    [pc |-> "idle", present |-> FALSE, scale |-> NoScale, dset |-> <<>>,
     y |-> <<>>, yerr |-> <<>>, bars |-> <<>>]

\* the subplot has drawn its model curves; expt.data may or may not hold
\* the observable
EbInit ==
    \E present \in BOOLEAN, scale \in Scales, y \in [ErrPoints -> {RInt(1), RInt(2)}],
       yerr \in YerrMaps :
        /\ ~present => y = [i \in ErrPoints |-> RInt(1)] /\ yerr = <<>>
        /\ eb = [EbIdle EXCEPT !.pc = "L315", !.present = present, !.scale = scale,
                               !.dset = [x |-> [i \in ErrPoints |-> RInt(i)],
                                         y |-> y, yerr |-> yerr]]

\* lines 315-318: try: dset = expt.data[system][obs][subobs]
\*                except KeyError: continue
EbLookup ==
    /\ eb.pc = "L315"
    /\ eb' = [eb EXCEPT !.pc = IF eb.present THEN "L320" ELSE "continue"]
    /\ UNCHANGED <<fci, val, pcs, bulk, post, ovl, ds, fsys, deco, scr, clr, sel>>

\* lines 320-324: y and the total error of every point
EbTotal ==
    /\ eb.pc = "L320"
    /\ eb' = [eb EXCEPT !.pc = "L326",
                        !.y = eb.dset.y,
                        !.yerr = [i \in ErrPoints |-> TotalError(eb.dset.yerr, i)]]
    /\ UNCHANGED <<fci, val, pcs, bulk, post, ovl, ds, fsys, deco, scr, clr, sel>>

\* lines 326-328: if scale is not None: y = y*scale; yerr = yerr*scale
EbScale ==
    /\ eb.pc = "L326"
    /\ eb' = IF eb.scale # NoScale
             THEN [eb EXCEPT !.pc = "L330",
                             !.y = [i \in ErrPoints |-> RMul(eb.y[i], eb.scale)],
                             !.yerr = [i \in ErrPoints |-> RMul(eb.yerr[i], eb.scale)]]
             ELSE [eb EXCEPT !.pc = "L330"]
    /\ UNCHANGED <<fci, val, pcs, bulk, post, ovl, ds, fsys, deco, scr, clr, sel>>

\* lines 330-333: ax.errorbar(x, y, yerr=yerr, ...)
EbDraw ==
    /\ eb.pc = "L330"
    /\ eb' = [eb EXCEPT !.pc = "drawn",
                        !.bars = [i \in ErrPoints |->
                                     [x |-> eb.dset.x[i], y |-> eb.y[i], yerr |-> eb.yerr[i]]]]
    /\ UNCHANGED <<fci, val, pcs, bulk, post, ovl, ds, fsys, deco, scr, clr, sel>>

EbNext == EbLookup \/ EbTotal \/ EbScale \/ EbDraw

----------------------------------------------------------------------------
(* The script entry point                                                   *)

\* a command-line argument: its directory parts and the dot-separated
\* pieces of its final component, e.g. plots/pca.pdf
Arg(parts, pieces) == [parts |-> parts, pieces |-> pieces]

Args ==
    {Arg(<<>>, <<"pca">>), Arg(<<"plots">>, <<"pca", "pdf">>),
     Arg(<<>>, <<"posterior_p", "pdf">>), Arg(<<>>, <<"observables_design">>),
     Arg(<<>>, <<"nosuch">>), Arg(<<"plots">>, <<"pca", "tar", "gz">>)}

RECURSIVE JoinDots(_)
JoinDots(pieces) ==
    IF Len(pieces) = 1 THEN pieces[1]
    ELSE pieces[1] \o "." \o JoinDots(Tail(pieces))

StemWhole(arg) == JoinDots(arg.pieces)

\* Path(arg).stem: the final component without its last suffix
Stem(arg) ==
    IF Len(arg.pieces) = 1 THEN arg.pieces[1]
    ELSE JoinDots(SubSeq(arg.pieces, 1, Len(arg.pieces) - 1))

\* list(plot_functions): the registered names in insertion order
Choices == PlotNames

ChoiceSet == {Choices[n] : n \in DOMAIN Choices}

CommandLines == UNION {[1..n -> Args] : n \in 0..MaxArgs}

ScrIdle ==
    [pc |-> "idle", argv |-> <<>>, i |-> 0, plots |-> <<>>, queue |-> <<>>,
     calls |-> <<>>]

ScrInit == \E argv \in CommandLines : scr = [ScrIdle EXCEPT !.pc = "L1808", !.argv = argv]

\* parser.parse_args(): arg_to_plot converts the next argument; an
\* ArgumentTypeError ends the program with a usage error
ScrParseArg ==
    /\ scr.pc = "L1808"
    /\ scr.i < Len(scr.argv)
    /\ LET arg == Stem(scr.argv[scr.i + 1])
       IN  scr' = IF arg \in ChoiceSet
                  THEN [scr EXCEPT !.i = @ + 1, !.plots = Append(@, arg)]
                  ELSE [scr EXCEPT !.pc = "rejected"]
    /\ UNCHANGED <<fci, val, pcs, bulk, post, ovl, ds, fsys, deco, eb, clr, sel>>

\* lines 1810-1815: the plots named, or every value of plot_functions
ScrSelect ==
    /\ scr.pc = "L1808"
    /\ scr.i = Len(scr.argv)
    /\ scr' = [scr EXCEPT !.pc = "L1811",
                          !.queue = IF scr.plots # <<>> THEN scr.plots ELSE Choices]
    /\ UNCHANGED <<fci, val, pcs, bulk, post, ovl, ds, fsys, deco, eb, clr, sel>>

\* plot_functions[p]() / f(): the next plot function is called and returns
ScrCall ==
    /\ scr.pc = "L1811"
    /\ scr.queue # <<>>
    /\ scr' = [scr EXCEPT !.queue = Tail(@), !.calls = Append(@, Head(scr.queue))]
    /\ UNCHANGED <<fci, val, pcs, bulk, post, ovl, ds, fsys, deco, eb, clr, sel>>

\* the next plot function is called and raises: the script ends
ScrCallRaises ==
    /\ scr.pc = "L1811"
    /\ scr.queue # <<>>
    /\ scr' = [scr EXCEPT !.pc = "raised", !.queue = <<>>,
                          !.calls = Append(@, Head(scr.queue))]
    /\ UNCHANGED <<fci, val, pcs, bulk, post, ovl, ds, fsys, deco, eb, clr, sel>>

ScrExit ==
    /\ scr.pc = "L1811"
    /\ scr.queue = <<>>
    /\ scr' = [scr EXCEPT !.pc = "done"]
    /\ UNCHANGED <<fci, val, pcs, bulk, post, ovl, ds, fsys, deco, eb, clr, sel>>

ScrNext == ScrParseArg \/ ScrSelect \/ ScrCall \/ ScrCallRaises \/ ScrExit

----------------------------------------------------------------------------
(* obs_color_hsluv                                                          *)

\* observables and sub-observables handed to obs_color_hsluv; a
\* sub-observable is written as Python prints it
ColourObs == {"dNch_deta", "pT_fluct", "dET_deta", "dN_dy", "mean_pT", "vnk", "dN_dphi"}

ColourSubobs ==
    {"None", "pion", "kaon", "proton", "lambda",
     "(2, 2)", "(2, 4)", "(3, 2)", "(4, 2)", "(5, 2)"}

\* the dict of lines 194-198
IdentifiedColours ==
    [pion |-> <<210, 85, 70>>, kaon |-> <<130, 88, 68>>, proton |-> <<30, 90, 62>>]

\* the dict of lines 201-206
FlowColours ==
    [s \in {"(2, 2)", "(2, 4)", "(3, 2)", "(4, 2)"} |->
        IF s = "(2, 2)" THEN <<230, 90, 65>>
        ELSE IF s = "(2, 4)" THEN <<262, 80, 63>>
        ELSE IF s = "(3, 2)" THEN <<150, 90, 67>>
        ELSE <<310, 70, 50>>]

ColIdle == [pc |-> "idle", obs |-> "", subobs |-> "", result |-> <<>>, exc |-> ""]

ColInit ==
    \E obs \in ColourObs, subobs \in ColourSubobs :
        clr = [ColIdle EXCEPT !.pc = "L187", !.obs = obs, !.subobs = subobs]

ColReturn(hsl) == [clr EXCEPT !.pc = "returned", !.result = hsl]

\* d[subobs]: the value, or KeyError for a missing key
ColLookup(d) ==
    IF clr.subobs \in DOMAIN d THEN ColReturn(d[clr.subobs])
    ELSE [clr EXCEPT !.pc = "raised", !.exc = "KeyError"]

\* lines 187-188
ColCharged ==
    /\ clr.pc = "L187"
    /\ clr' = IF clr.obs \in {"dNch_deta", "pT_fluct"}
              THEN ColReturn(<<250, 90, 55>>) ELSE [clr EXCEPT !.pc = "L190"]
    /\ UNCHANGED <<fci, val, pcs, bulk, post, ovl, ds, fsys, deco, eb, scr, sel>>

\* lines 190-191
ColEnergy ==
    /\ clr.pc = "L190"
    /\ clr' = IF clr.obs = "dET_deta"
              THEN ColReturn(<<10, 65, 55>>) ELSE [clr EXCEPT !.pc = "L193"]
    /\ UNCHANGED <<fci, val, pcs, bulk, post, ovl, ds, fsys, deco, eb, scr, sel>>

\* lines 193-198
ColIdentified ==
    /\ clr.pc = "L193"
    /\ clr' = IF clr.obs \in {"dN_dy", "mean_pT"}
              THEN ColLookup(IdentifiedColours) ELSE [clr EXCEPT !.pc = "L200"]
    /\ UNCHANGED <<fci, val, pcs, bulk, post, ovl, ds, fsys, deco, eb, scr, sel>>

\* lines 200-206
ColFlow ==
    /\ clr.pc = "L200"
    /\ clr' = IF clr.obs = "vnk"
              THEN ColLookup(FlowColours) ELSE [clr EXCEPT !.pc = "L208"]
    /\ UNCHANGED <<fci, val, pcs, bulk, post, ovl, ds, fsys, deco, eb, scr, sel>>

\* line 208: raise ValueError('unknown observable: ...')
ColUnknown ==
    /\ clr.pc = "L208"
    /\ clr' = [clr EXCEPT !.pc = "raised", !.exc = "ValueError"]
    /\ UNCHANGED <<fci, val, pcs, bulk, post, ovl, ds, fsys, deco, eb, scr, sel>>

ColNext == ColCharged \/ ColEnergy \/ ColIdentified \/ ColFlow \/ ColUnknown

----------------------------------------------------------------------------
(* Parameter selection in _posterior                                        *)

\* chain.keys, chain.labels and chain.range: one entry per parameter, in
\* the chain's order
ChainKeys == <<"etas_min", "etas_hrg", "dmin3">>

ChainLabels == <<"eta/s min", "eta/s hrg", "d_min">>

ChainRange == << <<0, 1>>, <<0, 2>>, <<0, 3>> >>

\* parameter names a caller may pass: the chain's keys and one that is not
ParamNames == {ChainKeys[n] : n \in DOMAIN ChainKeys} \cup {"nosuch"}

\* an optional argument: None, or a collection of names
None == [given |-> FALSE, names |-> {}]

Given(names) == [given |-> TRUE, names |-> names]

ParamArgs == {None} \cup {Given(names) : names \in SUBSET ParamNames}

\* the entries of seq whose key is in params, in order
RECURSIVE Selected(_, _, _)
Selected(seq, n, params) ==
    IF n > Len(ChainKeys) THEN <<>>
    ELSE (IF ChainKeys[n] \in params THEN <<seq[n]>> ELSE <<>>)
         \o Selected(seq, n + 1, params)

\* chain.load(*keys).T: one row of samples per requested key, in the order
\* of the request (the row is named by the key it holds)
ChainLoadT(keys) == [n \in DOMAIN keys |-> [samples_of |-> keys[n]]]

SelIdle ==
    [pc |-> "idle", params |-> None, ignore |-> None, selected |-> {},
     keys |-> <<>>, labels |-> <<>>, ranges |-> <<>>, ndim |-> 0,
     data |-> <<>>, panels |-> <<>>]

SelInit ==
    \E params \in ParamArgs, ignore \in ParamArgs :
        sel = [SelIdle EXCEPT !.pc = "L715", !.params = params, !.ignore = ignore]

\* lines 715-720: the set of selected names
SelParams ==
    /\ sel.pc = "L715"
    /\ sel' = [sel EXCEPT
          !.pc = "L722",
          !.selected =
              IF ~sel.params.given /\ ~sel.ignore.given THEN {ChainKeys[n] : n \in DOMAIN ChainKeys}
              ELSE IF sel.params.given THEN sel.params.names
              ELSE {ChainKeys[n] : n \in DOMAIN ChainKeys} \ sel.ignore.names]
    /\ UNCHANGED <<fci, val, pcs, bulk, post, ovl, ds, fsys, deco, eb, scr, clr>>

\* lines 722-725: keys, labels, ranges of the selected parameters; unpacking
\* an empty zip raises ValueError
SelKeys ==
    /\ sel.pc = "L722"
    /\ LET keys == Selected(ChainKeys, 1, sel.selected)
       IN  sel' = IF keys = <<>> THEN [sel EXCEPT !.pc = "raised"]
                  ELSE [sel EXCEPT !.pc = "L726",
                                   !.keys = keys,
                                   !.labels = Selected(ChainLabels, 1, sel.selected),
                                   !.ranges = Selected(ChainRange, 1, sel.selected)]
    /\ UNCHANGED <<fci, val, pcs, bulk, post, ovl, ds, fsys, deco, eb, scr, clr>>

\* lines 726-728: ndim = len(params); data = chain.load(*keys).T
SelLoad ==
    /\ sel.pc = "L726"
    /\ sel' = [sel EXCEPT !.pc = "L736",
                          !.ndim = Cardinality(sel.selected),
                          !.data = ChainLoadT(sel.keys)]
    /\ UNCHANGED <<fci, val, pcs, bulk, post, ovl, ds, fsys, deco, eb, scr, clr>>

\* lines 736-742: an ndim x ndim grid; zip pairs its diagonal with data,
\* keys and ranges and stops at the shortest of them. plt.subplots returns
\* a single Axes for a 1 x 1 grid, which has no diagonal (AttributeError)
SelDiagonal ==
    /\ sel.pc = "L736"
    /\ LET n == IF sel.ndim < Len(sel.keys) THEN sel.ndim ELSE Len(sel.keys)
       IN  sel' = IF sel.ndim = 1 THEN [sel EXCEPT !.pc = "raised"]
                  ELSE [sel EXCEPT !.pc = "drawn",
                            !.panels = [d \in 1..n |->
                                           [ax |-> <<d, d>>, samples |-> sel.data[d],
                                            key |-> sel.keys[d], lim |-> sel.ranges[d]]]]
    /\ UNCHANGED <<fci, val, pcs, bulk, post, ovl, ds, fsys, deco, eb, scr, clr>>

SelNext == SelParams \/ SelKeys \/ SelLoad \/ SelDiagonal

InitFormatCi == FciInit /\ val = ValIdle /\ pcs = PcaIdle /\ bulk = BulkIdle /\ post = PostIdle /\ ovl = OvlIdle /\ ds = DsIdle /\ fsys = FsysIdle /\ deco = DecoIdle /\ eb = EbIdle /\ scr = ScrIdle /\ clr = ColIdle /\ sel = SelIdle

SpecFormatCi == InitFormatCi /\ [][FciNext]_vars

InitPca == PcaInit /\ fci = FciIdle /\ val = ValIdle /\ bulk = BulkIdle /\ post = PostIdle /\ ovl = OvlIdle /\ ds = DsIdle /\ fsys = FsysIdle /\ deco = DecoIdle /\ eb = EbIdle /\ scr = ScrIdle /\ clr = ColIdle /\ sel = SelIdle

SpecPca == InitPca /\ [][PcaNext]_vars

InitRegionBulk == BulkInit /\ fci = FciIdle /\ val = ValIdle /\ pcs = PcaIdle /\ post = PostIdle /\ ovl = OvlIdle /\ ds = DsIdle /\ fsys = FsysIdle /\ deco = DecoIdle /\ eb = EbIdle /\ scr = ScrIdle /\ clr = ColIdle /\ sel = SelIdle

SpecRegionBulk == InitRegionBulk /\ [][BulkNext]_vars

\* the interpreter runs the function's next statement whenever there is one
SpecRegionBulkFair == SpecRegionBulk /\ WF_vars(BulkNext)

\* every caller of credible_interval: format_ci and _region_bulk
InitCredibleInterval ==
    /\ (FciInit /\ bulk = BulkIdle) \/ (BulkInit /\ fci = FciIdle)
    /\ val = ValIdle /\ pcs = PcaIdle /\ post = PostIdle /\ ovl = OvlIdle /\ ds = DsIdle /\ fsys = FsysIdle /\ deco = DecoIdle /\ eb = EbIdle /\ scr = ScrIdle /\ clr = ColIdle /\ sel = SelIdle

NextCredibleInterval == FciNext \/ BulkNext

SpecCredibleInterval == InitCredibleInterval /\ [][NextCredibleInterval]_vars

InitValidation == ValInit /\ fci = FciIdle /\ pcs = PcaIdle /\ bulk = BulkIdle /\ post = PostIdle /\ ovl = OvlIdle /\ ds = DsIdle /\ fsys = FsysIdle /\ deco = DecoIdle /\ eb = EbIdle /\ scr = ScrIdle /\ clr = ColIdle /\ sel = SelIdle

SpecValidation == InitValidation /\ [][ValNext]_vars

InitPosterior ==
    PostInit /\ fci = FciIdle /\ val = ValIdle /\ pcs = PcaIdle /\ bulk = BulkIdle /\ ovl = OvlIdle /\ ds = DsIdle /\ fsys = FsysIdle /\ deco = DecoIdle /\ eb = EbIdle /\ scr = ScrIdle /\ clr = ColIdle /\ sel = SelIdle

SpecPosterior == InitPosterior /\ [][PostNext]_vars

InitOverlay ==
    /\ OvlInit
    /\ fci = FciIdle /\ val = ValIdle /\ pcs = PcaIdle /\ bulk = BulkIdle /\ post = PostIdle /\ ds = DsIdle /\ fsys = FsysIdle /\ deco = DecoIdle /\ eb = EbIdle /\ scr = ScrIdle /\ clr = ColIdle /\ sel = SelIdle

SpecOverlay == InitOverlay /\ [][OvlNext]_vars

InitDatasets ==
    /\ DsInit
    /\ fci = FciIdle /\ val = ValIdle /\ pcs = PcaIdle /\ bulk = BulkIdle
    /\ post = PostIdle /\ ovl = OvlIdle /\ fsys = FsysIdle /\ deco = DecoIdle /\ eb = EbIdle /\ scr = ScrIdle /\ clr = ColIdle /\ sel = SelIdle

SpecDatasets == InitDatasets /\ [][DsNext]_vars

InitFormatSystem ==
    /\ FsysInit
    /\ fci = FciIdle /\ val = ValIdle /\ pcs = PcaIdle /\ bulk = BulkIdle
    /\ post = PostIdle /\ ovl = OvlIdle /\ ds = DsIdle /\ deco = DecoIdle /\ eb = EbIdle /\ scr = ScrIdle /\ clr = ColIdle /\ sel = SelIdle

SpecFormatSystem == InitFormatSystem /\ [][FsysNext]_vars

InitPlot ==
    /\ DecoInit
    /\ fci = FciIdle /\ val = ValIdle /\ pcs = PcaIdle /\ bulk = BulkIdle
    /\ post = PostIdle /\ ovl = OvlIdle /\ ds = DsIdle /\ fsys = FsysIdle /\ eb = EbIdle /\ scr = ScrIdle /\ clr = ColIdle /\ sel = SelIdle

SpecPlot == InitPlot /\ [][DecoNext]_vars

InitErrorBars ==
    /\ EbInit
    /\ fci = FciIdle /\ val = ValIdle /\ pcs = PcaIdle /\ bulk = BulkIdle
    /\ post = PostIdle /\ ovl = OvlIdle /\ ds = DsIdle /\ fsys = FsysIdle
    /\ deco = DecoIdle /\ scr = ScrIdle /\ clr = ColIdle /\ sel = SelIdle

SpecErrorBars == InitErrorBars /\ [][EbNext]_vars

InitScript ==
    /\ ScrInit
    /\ fci = FciIdle /\ val = ValIdle /\ pcs = PcaIdle /\ bulk = BulkIdle
    /\ post = PostIdle /\ ovl = OvlIdle /\ ds = DsIdle /\ fsys = FsysIdle
    /\ deco = DecoIdle /\ eb = EbIdle /\ clr = ColIdle /\ sel = SelIdle

SpecScript == InitScript /\ [][ScrNext]_vars

InitObsColour ==
    /\ ColInit
    /\ fci = FciIdle /\ val = ValIdle /\ pcs = PcaIdle /\ bulk = BulkIdle
    /\ post = PostIdle /\ ovl = OvlIdle /\ ds = DsIdle /\ fsys = FsysIdle
    /\ deco = DecoIdle /\ eb = EbIdle /\ scr = ScrIdle /\ sel = SelIdle

SpecObsColour == InitObsColour /\ [][ColNext]_vars

InitSelection ==
    /\ SelInit
    /\ fci = FciIdle /\ val = ValIdle /\ pcs = PcaIdle /\ bulk = BulkIdle
    /\ post = PostIdle /\ ovl = OvlIdle /\ ds = DsIdle /\ fsys = FsysIdle
    /\ deco = DecoIdle /\ eb = EbIdle /\ scr = ScrIdle /\ clr = ColIdle

SpecSelection == InitSelection /\ [][SelNext]_vars

----------------------------------------------------------------------------
(* Claims about format_ci and credible_interval                             *)

FciComputed == fci.pc \in {"L688", "L695", "done"}

\* C1: format_ci chooses precision 3 when |median| < 0.2 and median - lower
\* bound < 0.02, otherwise 2 when |median| < 1, otherwise 1, and formats the
\* median and both uncertainties with that one precision.
C1_PrecisionRule ==
    fci.pc = "done" =>
        LET lower == RSub(fci.median, fci.cil)
            upper == RSub(fci.cih, fci.median)
            expected ==
                IF RLt(RAbs(fci.median), R(200, 1000)) /\ RLt(lower, R(20, 1000))
                THEN 3
                ELSE IF RLt(RAbs(fci.median), RInt(1)) THEN 2 ELSE 1
        IN  /\ fci.median = Median(fci.samples)
            /\ fci.precision = expected
            /\ Len(fci.text) = 3
            /\ \A i \in 1..3 : fci.text[i][1] = expected
            /\ fci.text[1] = Format(expected, fci.median)
            /\ fci.text[2] = Format(expected, lower)
            /\ fci.text[3] = Format(expected, upper)

\* a small median with a small but non-zero lower uncertainty: precision 3
C1_Witness ==
    /\ fci.pc = "done"
    /\ fci.precision = 3
    /\ RLt(RInt(0), fci.ul)
    /\ fci.text[2][2] > 0

\* C2: for a non-empty sample array and a level in (0,1) the interval
\* brackets the sample median, so neither printed uncertainty is negative.
C2_IntervalBracketsMedian ==
    FciComputed =>
        /\ RLe(fci.cil, fci.median)
        /\ RLe(fci.median, fci.cih)
        /\ RLe(RInt(0), fci.ul)
        /\ RLe(RInt(0), fci.uh)

C2_Witness ==
    /\ fci.pc = "L688"
    /\ RLt(fci.cil, fci.median)
    /\ RLt(fci.median, fci.cih)
    /\ fci.ul # fci.uh

\* the k-th (0-based) order statistic, by counting instead of sorting
OrderStat(samples, k) ==
    CHOOSE v \in {samples[i] : i \in DOMAIN samples} :
        /\ Cardinality({i \in DOMAIN samples : RLt(samples[i], v)}) <= k
        /\ k < Cardinality({i \in DOMAIN samples : RLe(samples[i], v)})

InterpolatedAt(samples, p) ==
    LET h == RMul(p, RInt(Len(samples) - 1))
        f == RFloor(h)
        c == IF RInt(f) = h THEN f ELSE f + 1
        w == RSub(h, RInt(f))
    IN  RAdd(RMul(RSub(RInt(1), w), OrderStat(samples, f)),
             RMul(w, OrderStat(samples, c)))

\* C3: credible_interval(samples, level) returns the empirical quantiles at
\* (1-level)/2 and 1-(1-level)/2, each interpolated linearly between the
\* order statistics at the floor and the ceiling of p*(n-1).
C3_QuantilesInterpolated ==
    fci.pc = "L682" =>
        LET p == RDiv(RSub(RInt(1), fci.ci), RInt(2))
        IN  /\ Len(fci.samples) > 0
            /\ RLt(RInt(0), fci.ci) /\ RLt(fci.ci, RInt(1))
            /\ fci.cil = InterpolatedAt(fci.samples, p)
            /\ fci.cih = InterpolatedAt(fci.samples, RSub(RInt(1), p))

\* three distinct samples at level 1/2: both ranks fall between order statistics
C3_Witness ==
    /\ fci.pc = "L682"
    /\ Len(fci.samples) = 3
    /\ fci.ci = R(1, 2)
    /\ \A v \in {fci.samples[i] : i \in 1..3} : fci.cil # v /\ fci.cih # v

\* C4: for a fixed sample array, decreasing the level never widens the
\* interval: for a < b, lower(a) >= lower(b) and upper(a) <= upper(b).
C4_MonotoneInLevel ==
    fci.pc = "L682" =>
        \A b \in Levels :
            LET r == credible_interval(fci.samples, b)
            IN  /\ RLt(fci.ci, b) => RLe(r.lo, fci.cil) /\ RLe(fci.cih, r.hi)
                /\ RLt(b, fci.ci) => RLe(fci.cil, r.lo) /\ RLe(r.hi, fci.cih)

C4_Witness ==
    /\ fci.pc = "L682"
    /\ \E b \in Levels :
          LET r == credible_interval(fci.samples, b)
          IN  RLt(fci.ci, b) /\ RLt(r.lo, fci.cil) /\ RLt(fci.cih, r.hi)

----------------------------------------------------------------------------
(* Claims about validation_all and validation_example                       *)

\* z is diff / sqrt(variance): the sign of diff, and z^2 * variance = diff^2;
\* a zero variance gives no finite value
IsResidualOf(z, diff, variance) ==
    IF RLt(RInt(0), variance)
    THEN /\ IsFinite(z)
         /\ Sign(z[1]) = Sign(diff[1])
         /\ RMul(RMul(z, z), variance) = RMul(diff, diff)
    ELSE ~IsFinite(z)

\* C6: the normalized residual of validation point i in bin j is (emulator
\* mean[i,j] - model value[i,j]) / sqrt(cov[i,j,j]) of the same (obs, subobs)
\* block: prediction minus truth, and no off-diagonal element enters.
C6_NormalizedResidual ==
    /\ (val.fn = "validation_all" /\ val.pc \in {"L1551", "L1559"}) =>
          \A i \in Points, j \in Bins :
              IsResidualOf(val.Z[i][j], RSub(val.Y_[i][j], val.Y[i][j]),
                           val.cov[i][j][j])
    /\ (val.fn = "validation_example" /\ val.pc = "done") =>
          \A i \in Points :
              IsResidualOf(val.Z[i], RSub(val.Y_[i], val.Y[i]),
                           val.cov[i][val.cent][val.cent])

\* a negative residual in the last bin, whose variance differs from every
\* other element of the block
C6_Witness ==
    /\ val.fn = "validation_all"
    /\ val.pc = "L1551"
    /\ RLt(RInt(0), val.cov[1][1][1])
    /\ \E i \in Points : RLt(val.Z[i][NBins], RInt(0))

ValExact ==
    /\ val.Y_ = val.Y
    /\ \A i \in Points, j \in Bins : RLt(RInt(0), val.cov[i][j][j])

\* C7: when the predicted mean equals the model output in every entry and
\* every predicted variance is positive, every normalized residual and the
\* RMS percent error of every bin are exactly zero.
C7_ExactPredictionGivesZero ==
    (val.fn = "validation_all" /\ val.pc = "L1559" /\ ValExact) =>
        /\ \A i \in Points, j \in Bins : val.Z[i][j] = RInt(0)
        /\ \A j \in Bins : val.rms[j] = RInt(0)

\* C8: when a model output entry is exactly zero the computation raises
\* instead of producing and plotting an inf or nan value.
C8_ZeroTruthRaises ==
    (/\ val.fn = "validation_all"
     /\ val.pc = "L1559"
     /\ \E i \in Points, j \in Bins : val.Y[i][j] = RInt(0)) =>
        \A j \in Bins : IsFinite(val.rms[j])

----------------------------------------------------------------------------
(* Claims about pca                                                         *)

\* the k-th row of pc as computed at lines 1376-1380, before the loop
PcaComputed(k) == PcaScaled(pcs.xystd, pcs.ratio, pcs.components)[k]

PcaDrawn(k) == [d \in 1..2 |-> RSub(pcs.arrows[k].tip[d], pcs.arrows[k].tail[d])]

\* C9: every principal direction whose components are all non-positive
\* (each coordinate <= 0) is negated as a whole before its arrow and label
\* are drawn; one with a strictly positive coordinate is left unchanged.
C9_NonPositiveNegated ==
    pcs.pc \in {"L1382", "done"} =>
        \A k \in 1..Len(pcs.arrows) :
            LET v == PcaComputed(k)
            IN  PcaDrawn(k) =
                    IF \A d \in 1..2 : RLe(v[d], RInt(0))
                    THEN [d \in 1..2 |-> RNeg(v[d])]
                    ELSE v

----------------------------------------------------------------------------
(* Claims about the callers of credible_interval and about _region_bulk     *)

InvalidCall(samples, ci) ==
    Len(samples) = 0 \/ ~(RLt(RInt(0), ci) /\ RLt(ci, RInt(1)))

\* the rows gmm.predict labelled n
Labelled(n) == {i \in DOMAIN bulk.labels : bulk.labels[i] = n}

\* C5: credible_interval fails with an error (no interval is returned)
\* whenever samples is empty or level is outside (0,1), including the call
\* _region_bulk makes for a component to which no sample row was assigned.
C5_InvalidCallRaises ==
    /\ fci.pc \notin {"idle", "L681"} =>
          (fci.pc = "raised" <=> InvalidCall(fci.samples, fci.ci))
    /\ \A k \in 1..Len(bulk.groups) :
          Labelled(k - 1) = {} =>
              /\ bulk.pc = "raised"
              /\ k = Len(bulk.groups)
              /\ Len(bulk.drawn) = k - 1
    /\ (bulk.pc = "raised" /\ Len(bulk.samples) >= n_components) =>
          Labelled(Len(bulk.groups) - 1) = {}

\* the fit left a component without rows after one curve was drawn
C5_Witness ==
    /\ bulk.pc = "raised"
    /\ Len(bulk.samples) >= n_components
    /\ Len(bulk.drawn) = 1
    /\ Labelled(1) = {}

\* C10: every sample row receives exactly one label in {0, 1, 2} (the
\* component of highest posterior responsibility), so the per-label groups
\* are pairwise disjoint and together contain every sample row.
C10_LabelsPartitionRows ==
    (bulk.pc \in {"L1021", "done", "raised"} /\ Len(bulk.labels) > 0) =>
        /\ DOMAIN bulk.labels = DOMAIN bulk.samples
        /\ \A i \in DOMAIN bulk.labels :
              /\ bulk.labels[i] \in 0..2
              /\ \A c \in 1..3 : bulk.resp[i][c] <= bulk.resp[i][bulk.labels[i] + 1]
        /\ \A a \in 1..Len(bulk.groups), b \in 1..Len(bulk.groups) :
              a # b => bulk.groups[a] \cap bulk.groups[b] = {}
        /\ \A a \in 1..Len(bulk.groups) :
              \A i \in bulk.groups[a] : bulk.labels[i] = a - 1
        /\ Len(bulk.groups) = n_components =>
              UNION {bulk.groups[a] : a \in 1..n_components} = DOMAIN bulk.samples

\* all three groups drawn, one row having two equally responsible components
C10_Witness ==
    /\ bulk.pc = "done"
    /\ bulk.mode = "full"
    /\ Len(bulk.drawn) = n_components
    /\ \E i \in DOMAIN bulk.resp : bulk.resp[i] = <<1, 1, 0>>

\* the k-th (0-based) order statistic of column col over a set of rows
OrderStatOver(rows, col, k) ==
    CHOOSE v \in {bulk.samples[i][col] : i \in rows} :
        /\ Cardinality({i \in rows : RLt(bulk.samples[i][col], v)}) <= k
        /\ k < Cardinality({i \in rows : RLe(bulk.samples[i][col], v)})

\* the upper bound of the 90% interval of column col over a set of rows:
\* the quantile at 1 - (1 - .9)/2
UpperBoundOver(rows, col) ==
    LET h == RMul(R(19, 20), RInt(Cardinality(rows) - 1))
        f == RFloor(h)
        c == IF RInt(f) = h THEN f ELSE f + 1
        w == RSub(h, RInt(f))
    IN  RAdd(RMul(RSub(RInt(1), w), OrderStatOver(rows, col, f)),
             RMul(w, OrderStatOver(rows, col, c)))

\* the lower bound of the same interval
LowerBoundOver(rows, col) ==
    LET h == RMul(R(1, 20), RInt(Cardinality(rows) - 1))
        f == RFloor(h)
        c == IF RInt(f) = h THEN f ELSE f + 1
        w == RSub(h, RInt(f))
    IN  RAdd(RMul(RSub(RInt(1), w), OrderStatOver(rows, col, f)),
             RMul(w, OrderStatOver(rows, col, c)))

MeanOver(rows, col) ==
    RMean(RowsOf([i \in DOMAIN bulk.samples |-> bulk.samples[i][col]], rows, 1))

\* C11: for each label n the curve drawn is zetas evaluated with, for each
\* zetas parameter, the upper bound of the default (90%) credible interval of
\* that parameter over only the rows labelled n.
C11_CurveFromUpperBound ==
    \A k \in 1..Len(bulk.drawn) :
        LET rows == Labelled(k - 1)
            d == bulk.drawn[k]
        IN  /\ rows # {}
            /\ d.n = k - 1
            /\ d.params.zetas_max = UpperBoundOver(rows, 1)
            /\ d.params.zetas_width = UpperBoundOver(rows, 2)
            /\ d.curve = [t \in DOMAIN TGrid |->
                            zetas(TGrid[t], UpperBoundOver(rows, 1), UpperBoundOver(rows, 2))]

\* a curve drawn for a group of two rows whose upper bound differs from both
\* the group mean and the lower bound
C11_Witness ==
    \E k \in 1..Len(bulk.drawn) :
        LET rows == Labelled(k - 1)
        IN  /\ Cardinality(rows) = 2
            /\ Cardinality(DOMAIN bulk.samples \ rows) >= 1
            /\ UpperBoundOver(rows, 1) # MeanOver(rows, 1)
            /\ UpperBoundOver(rows, 1) # LowerBoundOver(rows, 1)
            /\ bulk.drawn[k].params.zetas_max = UpperBoundOver(rows, 1)

\* the (curve, colour) pair that belongs to a set of rows, from the rows'
\* representative parameters alone
PairOver(rows) ==
    LET zmax == UpperBoundOver(rows, 1)
        zwidth == UpperBoundOver(rows, 2)
    IN  << [t \in DOMAIN TGrid |-> zetas(TGrid[t], zmax, zwidth)],
           IF ~RLe(zmax, R(5, 100)) THEN "Blues"
           ELSE IF ~RLe(zwidth, R(3, 100)) THEN "Greens"
           ELSE "Oranges" >>

\* the relabellings of the mixture components
Relabellings == {f \in [0..(n_components - 1) -> 0..(n_components - 1)] :
                    \A m \in 0..(n_components - 1) : \E n \in 0..(n_components - 1) : f[n] = m}

\* the rows that carry label m once the components are relabelled by f
Relabelled(f, m) == {i \in DOMAIN bulk.labels : f[bulk.labels[i]] = m}

DrawnPairs == {<<bulk.drawn[k].curve, bulk.drawn[k].cmap>> : k \in 1..Len(bulk.drawn)}

\* C12: the colour and curve drawn for a regime depend only on that group's
\* representative parameters (zetas_max > .05 Blues, otherwise zetas_width >
\* .03 Greens, otherwise Oranges), never on the label integer: under any
\* permutation of the component labels the function yields the same set of
\* (curve, colour) pairs, and fails under all of them if it fails under one.
C12_ColourIndependentOfLabel ==
    /\ \A k \in 1..Len(bulk.drawn) :
          <<bulk.drawn[k].curve, bulk.drawn[k].cmap>> = PairOver(Labelled(k - 1))
    /\ (bulk.pc = "done" /\ bulk.mode = "full") =>
          \A f \in Relabellings :
              /\ \A m \in 0..(n_components - 1) : Relabelled(f, m) # {}
              /\ DrawnPairs = {PairOver(Relabelled(f, m)) : m \in 0..(n_components - 1)}
    /\ (bulk.pc = "raised" /\ Len(bulk.labels) > 0) =>
          \A f \in Relabellings :
              \E m \in 0..(n_components - 1) : Relabelled(f, m) = {}

\* all three regimes drawn in three colours, label 0 not being the Blues one
C12_Witness ==
    /\ bulk.pc = "done"
    /\ Len(bulk.drawn) = n_components
    /\ {bulk.drawn[k].cmap : k \in 1..Len(bulk.drawn)} = {"Blues", "Greens", "Oranges"}
    /\ bulk.drawn[1].cmap = "Oranges"
    /\ bulk.drawn[3].cmap = "Blues"

BulkEnded == bulk.pc \in {"done", "raised"}

\* the fit has stopped and handed over labels
BulkFitted == Len(bulk.labels) > 0

\* C13 as stated: the function always terminates and, once the fit has
\* stopped, exactly n_components = 3 groups are processed, one per label in
\* increasing order, and the function returns.
C13_ThreeGroupsThenReturn ==
    (BulkEnded /\ BulkFitted) =>
        /\ bulk.pc = "done"
        /\ Len(bulk.drawn) = n_components
        /\ \A k \in 1..Len(bulk.drawn) : bulk.drawn[k].n = k - 1

\* C13 (amended): the fit makes at most max_iter iterations, so _region_bulk
\* always terminates; once the fit stops, groups are processed one per label
\* in increasing order, and the function either returns after exactly
\* n_components = 3 groups or ends with the error credible_interval raises
\* for the first label that has no rows.
C13_Terminates ==
    /\ [](bulk.iter <= max_iter)
    /\ [](\A k \in 1..Len(bulk.drawn) : bulk.drawn[k].n = k - 1)
    /\ []((bulk.pc = "done" /\ BulkFitted) => Len(bulk.drawn) = n_components)
    /\ []((bulk.pc = "raised" /\ BulkFitted) =>
             /\ Len(bulk.drawn) < n_components
             /\ Labelled(Len(bulk.drawn)) = {}
             /\ \A n \in 0..(Len(bulk.drawn) - 1) : Labelled(n) # {})
    /\ <>BulkEnded

\* the fit has used every iteration it may
C13_Witness ==
    /\ bulk.pc = "L1018"
    /\ bulk.iter = max_iter

----------------------------------------------------------------------------
(* Claims about the histogram smoothing                                     *)

PostInterpolated == post.pc \in {"linspace", "eval", "plot", "done"}

PostEvaluated == post.pc \in {"plot", "done"}

\* C14: the smoothed curve passes through every input: at each original
\* histogram bin centre the interpolated value equals the original bin height
\* exactly.
C14_PassesThroughInputs ==
    /\ PostInterpolated =>
          \A k \in DOMAIN post.x :
              PchipEval(post.x, post.y, post.d, post.x[k]) = post.y[k]
    /\ PostEvaluated =>
          /\ post.ys[1] = post.y[1]
          /\ post.ys[Len(post.ys)] = post.y[Len(post.y)]

\* a curve evaluated through a histogram whose middle bin is the highest
C14_Witness ==
    /\ post.pc = "done"
    /\ post.counts[1] = 1 /\ post.counts[2] = 2 /\ post.counts[NHistBins] = 0
    /\ post.fn = "_posterior"

\* C15: the smoothed curve is evaluated at 10 points per bin, evenly spaced,
\* the first being the first bin centre and the last the last bin centre; no
\* evaluation point lies outside [first bin centre, last bin centre].
C15_EvaluationPoints ==
    post.pc \in {"eval", "plot", "done"} =>
        LET n == Len(post.xs)
        IN  /\ n = PointsPerBin * Len(post.x)
            /\ post.xs[1] = post.x[1]
            /\ post.xs[n] = post.x[Len(post.x)]
            /\ \A j \in 1..(n - 2) :
                  RSub(post.xs[j + 1], post.xs[j]) = RSub(post.xs[j + 2], post.xs[j + 1])
            /\ \A j \in 1..n :
                  RLe(post.x[1], post.xs[j]) /\ RLe(post.xs[j], post.x[Len(post.x)])

\* the evaluation points of posterior_p over a data range that starts below 0
C15_Witness ==
    /\ post.pc = "eval"
    /\ post.fn = "posterior_p"
    /\ post.lim[1] = RInt(-1)
    /\ Len(post.xs) = PointsPerBin * NHistBins

\* the bin-centre interval an evaluation point lies in
PostPieceOf(t) ==
    CHOOSE k \in 1..(Len(post.x) - 1) : RLe(post.x[k], t) /\ RLe(t, post.x[k + 1])

PostBaseline == IF post.fn = "_posterior" THEN post.lim[1] ELSE RInt(0)

\* C16: between two adjacent bin centres the smoothed curve stays within the
\* closed range spanned by the two adjacent bin heights, so it never goes
\* below the smallest bin height (nor below the baseline, lim[0] in
\* _posterior and 0 in posterior_p) and never above the largest bin height.
C16_NoOvershoot ==
    PostEvaluated =>
        \A j \in DOMAIN post.xs :
            LET k == PostPieceOf(post.xs[j])
                v == post.ys[j]
            IN  /\ RLe(RMin(post.y[k], post.y[k + 1]), v)
                /\ RLe(v, RMax(post.y[k], post.y[k + 1]))
                /\ RLe(PostBaseline, v)
                /\ \E i \in DOMAIN post.y : RLe(v, post.y[i])
                /\ \E i \in DOMAIN post.y : RLe(post.y[i], v)

\* a curve through an empty bin next to a full one: every point between them
\* is evaluated and none leaves the range of the two heights
C16_Witness ==
    /\ post.pc = "done"
    /\ post.counts[1] = 0 /\ post.counts[2] = 0 /\ post.counts[NHistBins] = MaxCount
    /\ \E j \in DOMAIN post.ys :
          RLt(post.y[NHistBins - 1], post.ys[j]) /\ RLt(post.ys[j], post.y[NHistBins])

----------------------------------------------------------------------------
(* Claims about the experimental overlays                                   *)

OvlAllKeys == 1..Len(OverlayKeys)

\* C17: when an (obs, subobs) key is absent from the experimental dataset of
\* a system, every function that overlays experiment on model skips only the
\* experimental overlay for that key: the model curve for the key is still
\* drawn, the remaining keys and systems are still processed, and no KeyError
\* propagates out of the function.
C17_MissingKeySkipsOverlayOnly ==
    DOMAIN ovl.expt = systems =>
        /\ ovl.pc # "raised"
        /\ ovl.pc = "done" =>
              /\ ovl.model = OvlAllKeys
              /\ ovl.overlay = {i \in OvlAllKeys : ExptHas(ovl.expt, OverlayKeys[i])}

----------------------------------------------------------------------------
(* Claims about the datasets                                                *)

\* C18: no plot function changes any array or key of the Model, MAP,
\* Experiment or Validation datasets or of the loaded sample matrices:
\* scaling, standardising, cube-root transforming and centring operate on
\* newly created arrays, so the datasets are identical before and after any
\* sequence of plot calls.
C18_DatasetsUnchanged ==
    ds.pc # "idle" =>
        /\ DatasetIds \subseteq DOMAIN ds.heap
        /\ \A id \in DatasetIds : ds.heap[id] = ds.orig[id]
        /\ \A name \in {"xy0", "xy1", "p"} : ds.ref[name] \notin DatasetIds

\* pca has standardised, in place, its own copy of two non-constant columns
C18_Witness ==
    /\ ds.pc = "L1376"
    /\ ds.heap["xy0"] # ds.heap["model.x"]
    /\ ds.heap["xy1"] # ds.heap["model.y"]
    /\ ds.heap["model.x"][1] # ds.heap["model.x"][2]

----------------------------------------------------------------------------
(* Claims about format_system                                               *)

\* the energy of a system, in thousandths of a GeV
FsysMilliGeV == 1000 * parse_system(fsys.system)[2]

\* the text each energy is displayed as
EnergyText ==
    [energy \in Energies |->
        IF energy = 200 THEN "200 GeV"
        ELSE IF energy = 900 THEN "900 GeV"
        ELSE IF energy = 1000 THEN "1000 GeV"
        ELSE IF energy = 1001 THEN "1.001 TeV"
        ELSE IF energy = 2000 THEN "2.0 TeV"
        ELSE IF energy = 2760 THEN "2.76 TeV"
        ELSE IF energy = 5020 THEN "5.02 TeV"
        ELSE "13.0 TeV"]

\* C19: format_system joins the projectile names with '+' and prints the
\* energy in TeV (the value divided by 1000) when it exceeds 1000 GeV and
\* otherwise in GeV unchanged: 'PbPb2760' gives 'Pb+Pb 2.76 TeV' and
\* 'AuAu200' gives 'Au+Au 200 GeV'.
C19_FormatSystem ==
    fsys.pc = "done" =>
        LET r == parse_system(fsys.system)
        IN  /\ fsys.result = r[1][1] \o "+" \o r[1][2] \o " " \o EnergyText[r[2]]
            /\ IF r[2] > 1000
               THEN /\ fsys.prefix = "T"
                    /\ 1000 * fsys.energy.milli = FsysMilliGeV
               ELSE /\ fsys.prefix = "G"
                    /\ fsys.energy.milli = FsysMilliGeV
            /\ fsys.system = "PbPb2760" => fsys.result = "Pb+Pb 2.76 TeV"
            /\ fsys.system = "AuAu200" => fsys.result = "Au+Au 200 GeV"

\* the docstring's first example has been formatted
C19_Witness == fsys.pc = "done" /\ fsys.system = "PbPb2760" /\ fsys.prefix = "T"

----------------------------------------------------------------------------
(* Claims about the plot decorator                                          *)

\* the operations of the wrapper so far, in order
DecoOps == [i \in DOMAIN deco.trace |-> deco.trace[i].op]

\* the function has returned and set a tight layout of its own
DecoOwnLayout == deco.trace # <<>> /\ deco.trace[1].fig.tight

\* what a finished call consists of
DecoFullCall ==
    <<"f">> \o (IF DecoOwnLayout THEN <<>> ELSE <<"set_tight">>)
            \o <<"savefig", "close">>

\* C20: a call of a decorated function runs the wrapped function exactly
\* once, then applies the default tight layout (pad 0.1) only if the function
\* set none itself, then saves the current figure as plots/<name>.pdf, then
\* closes it, in that order; every decorated function is registered in
\* plot_functions under its own name.
C20_WrapperOrder ==
    /\ \A f \in PlotFunctions :
          f <= Cardinality(DOMAIN deco.plot_functions) =>
              /\ PlotNames[f] \in DOMAIN deco.plot_functions
              /\ deco.plot_functions[PlotNames[f]] = f
    /\ deco.pc = "main" => DOMAIN deco.plot_functions = {PlotNames[f] : f \in PlotFunctions}
    /\ deco.pc \in {"L105", "L110", "L113", "main"} /\ deco.f # 0 =>
          /\ Len(deco.trace) <= Len(DecoFullCall)
          /\ DecoOps = SubSeq(DecoFullCall, 1, Len(deco.trace))
          /\ deco.pc = "main" => DecoOps = DecoFullCall
          /\ \A i \in DOMAIN deco.trace :
                /\ deco.trace[i].f = deco.f
                /\ DecoOwnLayout => deco.trace[i].fig.params = deco.trace[1].fig.params
                /\ ~DecoOwnLayout /\ i > 1 =>
                      /\ deco.trace[i].fig.tight
                      /\ deco.trace[i].fig.params = [pad |-> <<1, 10>>]
                /\ deco.trace[i].fig.open <=> deco.trace[i].op # "close"
                /\ deco.trace[i].file =
                      IF deco.trace[i].op = "savefig"
                      THEN "plots/" \o PlotNames[deco.f] \o ".pdf" ELSE ""
          /\ deco.pc = "main" => "plots/" \o PlotNames[deco.f] \o ".pdf" \in deco.files

\* posterior_p.pdf was written by an earlier call, and a call of pca whose
\* function set no layout has been given the default, saved and closed
C20_Witness ==
    /\ deco.pc = "main" /\ deco.f = 3
    /\ Len(deco.trace) = 4 /\ deco.trace[2].op = "set_tight"
    /\ "plots/posterior_p.pdf" \in deco.files

----------------------------------------------------------------------------
(* Claims about the standardisation in pca                                  *)

\* column d of the cloud read at lines 1351-1354, and of the cloud handed to
\* PCA().fit
PcaRawColumn(d) == IF d = 1 THEN pcs.x ELSE pcs.y

PcaFittedColumn(d) == [i \in Cloud |-> pcs.xy[i][d]]

PcaFitted == pcs.pc \in {"L1382", "done"}

\* the fitted cloud is the raw cloud centred on its column means and
\* divided by its column standard deviations: each column has mean 0 and
\* the raw column's variance over the square of its standard deviation,
\* which is exactly 1 wherever the square root is exact
PcaStandardized ==
    \A d \in 1..2 :
        \E raw \in {PcaRawColumn(d)}, fit \in {PcaFittedColumn(d)} :
        \E sd \in {ColStd(raw)} :
            /\ RLt(RInt(0), sd)
            /\ \A i \in Cloud : RMul(fit[i], sd) = RSub(raw[i], ColMean(raw))
            /\ ColMean(fit) = RInt(0)
            /\ RMul(ColVar(fit), RMul(sd, sd)) = ColVar(raw)
            /\ RMul(sd, sd) = ColVar(raw) => ColVar(fit) = RInt(1) /\ ColStd(fit) = RInt(1)

\* the fitted direction k in data units, 7 times its explained-variance
\* fraction long
PcaDataUnits(k) ==
    [d \in 1..2 |->
        RMul(RMul(pcs.components[k][d], ColStd(PcaRawColumn(d))),
             RMul(RInt(7), pcs.ratio[k]))]

\* the statement without the sign convention: every drawn arrow is the
\* fitted direction in data units as it stands
C21_ArrowIsScaledDirection ==
    PcaFitted =>
        /\ PcaStandardized
        /\ \A k \in 1..Len(pcs.arrows) : PcaDrawn(k) = PcaDataUnits(k)

\* C21: pca subtracts each column's mean and divides by each column's
\* standard deviation before fitting, so the fitted cloud has mean 0 and
\* standard deviation 1 in every column; each drawn arrow is the fitted
\* direction multiplied component-wise by the column standard deviations and
\* by 7 times its explained-variance fraction, negated as a whole when all
\* of its components are negative.
C21_StandardizedAndRescaled ==
    PcaFitted =>
        /\ PcaStandardized
        /\ \A k \in 1..Len(pcs.arrows) :
              \E v \in {PcaDataUnits(k)} :
                  PcaDrawn(k) =
                      IF \A d \in 1..2 : RLt(v[d], RInt(0))
                      THEN [d \in 1..2 |-> RNeg(v[d])]
                      ELSE v

\* both arrows of a correlated cloud are drawn: one column has an exact
\* standard deviation of 1, the other an inexact one below 1, and the first
\* direction came out of the fit pointing to negative x and y
C21_Witness ==
    /\ pcs.pc = "done" /\ Len(pcs.arrows) = 2
    /\ ColStd(pcs.x) = RInt(1) /\ RLt(ColStd(pcs.y), RInt(1))
    /\ \A d \in 1..2 : RLt(pcs.components[1][d], RInt(0))

----------------------------------------------------------------------------
(* Claims about the experimental error bars of _observables                 *)

\* the factor applied to the experimental points
EbFactor == IF eb.scale = NoScale THEN RInt(1) ELSE eb.scale

\* the sum of the squares of all error sources of the data set at point i
EbQuadrature(i) ==
    LET sq(src) == IF src \in DOMAIN eb.dset.yerr
                   THEN RMul(eb.dset.yerr[src][i], eb.dset.yerr[src][i])
                   ELSE RInt(0)
    IN  RAdd(sq("stat"), sq("sys"))

\* C22: _observables draws one error bar per experimental point; its size is
\* the square root (to the two decimals the model keeps of a root) of the
\* sum of squares of all error sources present in yerr, and with a scale
\* factor both the value and this total error are multiplied by that factor.
C22_QuadratureErrorBar ==
    eb.pc = "drawn" =>
        /\ DOMAIN eb.bars = ErrPoints
        /\ \A i \in ErrPoints :
              \E root \in {RDiv(eb.bars[i].yerr, EbFactor)} :
                  /\ eb.bars[i].x = eb.dset.x[i]
                  /\ eb.bars[i].y = RMul(eb.dset.y[i], EbFactor)
                  /\ RLe(RInt(0), root)
                  /\ RLe(RMul(root, root), EbQuadrature(i))
                  /\ RLt(EbQuadrature(i),
                         RMul(RAdd(root, R(1, 100)), RAdd(root, R(1, 100))))

\* a scaled data set with both error sources has been drawn, its first point
\* with errors 3 and 4, hence a bar of 5 times the factor
C22_Witness ==
    /\ eb.pc = "drawn" /\ eb.scale = RInt(25)
    /\ DOMAIN eb.dset.yerr = ErrSources
    /\ eb.dset.yerr["stat"][1] = RInt(3) /\ eb.dset.yerr["sys"][1] = RInt(4)
    /\ eb.bars[1].yerr = RInt(125)

----------------------------------------------------------------------------
(* Claims about the x positions of validation_all                           *)

\* the (obs, subobs) group the n-th box of the figure belongs to
ValGroupOf(n) == (n - 1) \div NBins + 1

\* the groups whose boxes, RMS points and tick are all drawn
ValGroupsDone == 1..Len(val.ticks)

\* C23: in validation_all the box x positions increase strictly over the
\* whole figure, start at 1, are consecutive within a (obs, subobs) group and
\* leave exactly one unused position between consecutive groups; each
\* group's RMS points use the x positions of its boxes, and each group's tick
\* is the midpoint of its first and last box position.
C23_BoxPositions ==
    val.fn = "validation_all" =>
        /\ val.boxes # <<>> => val.boxes[1] = 1
        /\ \A n \in 1..(Len(val.boxes) - 1) :
              /\ val.boxes[n] < val.boxes[n + 1]
              /\ val.boxes[n + 1] - val.boxes[n] =
                    IF ValGroupOf(n) = ValGroupOf(n + 1) THEN 1 ELSE 2
        /\ Len(val.rmsx) = NBins * Len(val.ticks)
        /\ \A g \in ValGroupsDone :
              LET first == (g - 1) * NBins + 1
                  last == g * NBins
              IN  /\ last <= Len(val.boxes)
                  /\ \A n \in first..last : val.rmsx[n] = val.boxes[n]
                  /\ val.ticks[g] = R(val.boxes[first] + val.boxes[last], 2)

\* all groups are drawn; the last group starts two positions after the end
\* of the one before it
C23_Witness ==
    /\ val.fn = "validation_all" /\ val.pc = "done"
    /\ Len(val.ticks) = Len(ValKeys)
    /\ Len(val.boxes) = NBins * Len(ValKeys)
    /\ val.boxes[Len(val.boxes) - NBins + 1] = val.boxes[Len(val.boxes) - NBins] + 2

----------------------------------------------------------------------------
(* Claims about the script entry point                                      *)

\* the file stem of each argument of the model, written out
ScrStemOf(arg) ==
    IF arg = Arg(<<>>, <<"posterior_p", "pdf">>) THEN "posterior_p"
    ELSE IF arg = Arg(<<>>, <<"observables_design">>) THEN "observables_design"
    ELSE IF arg = Arg(<<>>, <<"nosuch">>) THEN "nosuch"
    ELSE IF arg = Arg(<<"plots">>, <<"pca", "tar", "gz">>) THEN "pca.tar"
    ELSE "pca"

ScrRegistered == {"observables_design", "posterior_p", "pca"}

\* the plots a run of the script has to call, in order
ScrExpected ==
    IF scr.argv = <<>> THEN <<"observables_design", "posterior_p", "pca">>
    ELSE [n \in DOMAIN scr.argv |-> ScrStemOf(scr.argv[n])]

ScrAllValid == \A n \in DOMAIN scr.argv : ScrStemOf(scr.argv[n]) \in ScrRegistered

\* C24: run as a script, the module calls every registered plot function
\* exactly once in registration order when no names are given; with names it
\* calls exactly those plots in the order given (each argument reduced to
\* its file stem, a repeated name once per occurrence); an argument whose
\* stem is not a registered plot is rejected during argument parsing, before
\* any plot function runs.
C24_ScriptCalls ==
    scr.pc # "idle" =>
        /\ ~ScrAllValid => scr.calls = <<>> /\ scr.pc \in {"L1808", "rejected"}
        /\ scr.pc = "rejected" => ~ScrAllValid
        /\ scr.pc = "L1808" => scr.calls = <<>>
        /\ ScrAllValid =>
              /\ Len(scr.calls) <= Len(ScrExpected)
              /\ scr.calls = SubSeq(ScrExpected, 1, Len(scr.calls))
              /\ scr.pc = "done" => scr.calls = ScrExpected

\* the script has run pca twice, named once by a path with a suffix
C24_Witness ==
    /\ scr.pc = "done"
    /\ scr.argv = <<Arg(<<"plots">>, <<"pca", "pdf">>), Arg(<<>>, <<"pca">>)>>
    /\ scr.calls = <<"pca", "pca">>

----------------------------------------------------------------------------
(* Claims about obs_color_hsluv                                             *)

\* the pairs the function has a colour for: the sub-observable of the
\* charged-particle, fluctuation and transverse-energy observables is not
\* looked at
ColKnown(obs, subobs) ==
    \/ obs \in {"dNch_deta", "pT_fluct", "dET_deta"}
    \/ obs \in {"dN_dy", "mean_pT"} /\ subobs \in {"pion", "kaon", "proton"}
    \/ obs = "vnk" /\ subobs \in {"(2, 2)", "(2, 4)", "(3, 2)", "(4, 2)"}

\* C25: obs_color_hsluv returns an (h, s, l) triple for every known
\* (obs, subobs) pair and raises ValueError 'unknown observable' for every
\* other pair, including a known observable with an unknown sub-observable.
C25_UnknownPairIsValueError ==
    clr.pc \in {"returned", "raised"} =>
        IF ColKnown(clr.obs, clr.subobs)
        THEN clr.pc = "returned" /\ Len(clr.result) = 3
        ELSE clr.pc = "raised" /\ clr.exc = "ValueError"

----------------------------------------------------------------------------
(* Claims about the parameter selection of _posterior                       *)

\* the position of a key in the chain
SelChainIndex(key) == CHOOSE n \in DOMAIN ChainKeys : ChainKeys[n] = key

\* C26: in _posterior, for any params / ignore arguments, the selected keys
\* keep the chain's key order, and ndim equals the number of selected keys,
\* of sample rows loaded and of labels and ranges used, so that every
\* diagonal panel of the grid is paired with exactly one parameter.
C26_GridMatchesSelection ==
    sel.pc = "drawn" =>
        /\ \A a, b \in DOMAIN sel.keys :
              a < b => SelChainIndex(sel.keys[a]) < SelChainIndex(sel.keys[b])
        /\ sel.ndim = Len(sel.keys)
        /\ Len(sel.data) = sel.ndim
        /\ Len(sel.labels) = sel.ndim /\ Len(sel.ranges) = sel.ndim
        /\ DOMAIN sel.panels = 1..sel.ndim
        /\ \A d \in DOMAIN sel.panels :
              /\ sel.panels[d].key = sel.keys[d]
              /\ sel.panels[d].samples.samples_of = sel.keys[d]

====
